---- MODULE Spec2Model ----
(***************************************************************************)
(* Hybrid search-and-cache subsystem of the service finder back end:      *)
(* the cache service (cacheService.js), its key builders, and the search  *)
(* controller (searchController.js) with its remote fallback.             *)
(*                                                                         *)
(* Strings are sequences of one-character strings, so that normalisation, *)
(* key formatting and pattern matching are computed character by          *)
(* character as the JavaScript code computes them.                        *)
(***************************************************************************)
EXTENDS Naturals, Integers, Sequences, FiniteSets, TLC

VARIABLES
    keyIn,      \* inputs handed to getSearchKey: two (query, filters) pairs
    keyOut,     \* the two keys getSearchKey returned for them, or NoKeys
    cache,      \* NodeCache content: key -> [value, ttl]
    stats,      \* CacheService.stats: hits, misses, sets
    cacheOp,    \* the last CacheService operation: name, argument, result, content before
    store,      \* Service collection: sequence of documents in insertion order
    resp,       \* the response of the last search request
    trace,      \* what the last search request did (local page, remote call, ...)
    client,     \* the page, limit and category the client sends with its searches
    nReq,       \* number of search requests served
    api,        \* the HTTP client of the remote service: the call in progress, the calls made
    history,    \* User.recentSearches of one user, and the clock that stamps its entries
    admin,      \* the categories and services the admin handlers write, and the last handler run
    users,      \* User collection as search writes it: user id -> recentSearches
    proc        \* the search requests in progress at once: position and locals of each

vars == <<keyIn, keyOut, cache, stats, cacheOp, store, resp, trace, client, nReq,
          api, history, admin, users, proc>>

(***************************************************************************)
(* Bounds of the model.                                                    *)
(***************************************************************************)
MaxQueryLen == 4
MaxFilters == 2
MaxCacheOps == 2
MaxRequests == 2
MaxPublic == 10
MaxPremium == 1
MaxRemote == 5
MaxCalls == 2
MaxAttempts == 5
MaxHistoryOps == 11
MaxAdminOps == 2
MaxStatOps == 10
MaxConcurrent == 2

(***************************************************************************)
(* Character strings.                                                      *)
(***************************************************************************)
UpperLetters == <<"A","B","C","D","E","F","G","H","I","J","K","L","M",
                  "N","O","P","Q","R","S","T","U","V","W","X","Y","Z">>
LowerLetters == <<"a","b","c","d","e","f","g","h","i","j","k","l","m",
                  "n","o","p","q","r","s","t","u","v","w","x","y","z">>
Digits == <<"0","1","2","3","4","5","6","7","8","9">>

\* the characters matched by \s, which are also those String.trim removes
WhiteSpace == {" ", "\t", "\n"}

StrOfMaxLen(alphabet, n) == UNION {[1..k -> alphabet] : k \in 0..n}

UpperSet == {UpperLetters[i] : i \in 1..26}
LowerOf == [c \in UpperSet |-> LowerLetters[CHOOSE i \in 1..26 : UpperLetters[i] = c]]

LowerChar(c) == IF c \in UpperSet THEN LowerOf[c] ELSE c

\* String.prototype.toLowerCase
ToLowerCase(s) == [i \in 1..Len(s) |-> LowerChar(s[i])]

RECURSIVE TrimStart(_)
TrimStart(s) ==
    IF s # <<>> /\ Head(s) \in WhiteSpace THEN TrimStart(Tail(s)) ELSE s

RECURSIVE TrimEnd(_)
TrimEnd(s) ==
    IF s # <<>> /\ s[Len(s)] \in WhiteSpace
    THEN TrimEnd(SubSeq(s, 1, Len(s) - 1))
    ELSE s

\* String.prototype.trim
Trim(s) == TrimEnd(TrimStart(s))

\* s.replace(/\s+/g, ' '): every maximal run of whitespace becomes one space
RECURSIVE ReplaceWsRuns(_)
ReplaceWsRuns(s) ==
    IF s = <<>> THEN <<>>
    ELSE IF Head(s) \in WhiteSpace
         THEN <<" ">> \o ReplaceWsRuns(TrimStart(s))
         ELSE <<Head(s)>> \o ReplaceWsRuns(Tail(s))

\* template-literal conversion of a non-negative integer
RECURSIVE NumStr(_)
NumStr(n) ==
    IF n < 10 THEN <<Digits[n + 1]>>
    ELSE NumStr(n \div 10) \o <<Digits[(n % 10) + 1]>>

StartsWith(s, p) == Len(p) <= Len(s) /\ SubSeq(s, 1, Len(p)) = p

\* String.prototype.includes
Includes(s, p) ==
    \E i \in 1..(Len(s) + 1) :
        i + Len(p) - 1 <= Len(s) /\ SubSeq(s, i, i + Len(p) - 1) = p

\* rank of a character in the collation order of the filter names
\* (lower-case ASCII letters: alphabetical)
LowerSet == {LowerLetters[i] : i \in 1..26}
RankOf == [c \in LowerSet |-> CHOOSE i \in 1..26 : LowerLetters[i] = c]

CharRank(c) == IF c \in LowerSet THEN RankOf[c] ELSE 0

\* a.localeCompare(b) < 0 on lower-case ASCII words
RECURSIVE LocaleLess(_, _)
LocaleLess(a, b) ==
    IF b = <<>> THEN FALSE
    ELSE IF a = <<>> THEN TRUE
    ELSE IF CharRank(Head(a)) # CharRank(Head(b))
         THEN CharRank(Head(a)) < CharRank(Head(b))
         ELSE LocaleLess(Tail(a), Tail(b))

(***************************************************************************)
(* JavaScript values that occur as filter values.                          *)
(***************************************************************************)
JsNull == [t |-> "null", s |-> <<>>, n |-> 0]
JsUndefined == [t |-> "undefined", s |-> <<>>, n |-> 0]
JsStr(s) == [t |-> "string", s |-> s, n |-> 0]
JsNum(n) == [t |-> "number", s |-> <<>>, n |-> n]

\* `${value}` for the values that survive the filter
TemplateStr(v) == IF v.t = "number" THEN NumStr(v.n) ELSE v.s

\* value !== null && value !== undefined && value !== ''
IsRetained(v) == ~(v.t = "null" \/ v.t = "undefined" \/ (v.t = "string" /\ v.s = <<>>))

(***************************************************************************)
(* KeyBuilder: CacheService.getSearchKey.                                  *)
(* A filter object is the sequence of its entries in insertion order,     *)
(* each entry a record [name, value]; names are unique.                   *)
(***************************************************************************)
SearchPrefix == <<"s","e","a","r","c","h",":","q",":">>
FiltersInfix == <<":","f","i","l","t","e","r","s",":">>

\* mutant: the whitespace runs are not collapsed
NormalizeQuery_NoCollapse(query) == Trim(ToLowerCase(query))

\* query.toLowerCase().trim().replace(/\s+/g, ' ')
NormalizeQuery(query) == ReplaceWsRuns(Trim(ToLowerCase(query)))

RECURSIVE FilterEntries(_)
FilterEntries(entries) ==
    IF entries = <<>> THEN <<>>
    ELSE IF IsRetained(Head(entries).value)
         THEN <<Head(entries)>> \o FilterEntries(Tail(entries))
         ELSE FilterEntries(Tail(entries))

\* insertion of e into a sequence sorted by name; equal names keep their order
RECURSIVE InsertByName(_, _)
InsertByName(e, sorted) ==
    IF sorted = <<>> THEN <<e>>
    ELSE IF LocaleLess(e.name, Head(sorted).name)
         THEN <<e>> \o sorted
         ELSE <<Head(sorted)>> \o InsertByName(e, Tail(sorted))

\* mutant: the entries are left in insertion order
SortByName_Unsorted(entries) == entries

\* entries.sort(([a], [b]) => a.localeCompare(b))
RECURSIVE SortByName(_)
SortByName(entries) ==
    IF entries = <<>> THEN <<>>
    ELSE InsertByName(entries[Len(entries)],
                      SortByName(SubSeq(entries, 1, Len(entries) - 1)))

\* .map(([key, value]) => `${key}:${value}`).join('|')
RECURSIVE JoinEntries(_)
JoinEntries(entries) ==
    IF entries = <<>> THEN <<>>
    ELSE Head(entries).name \o <<":">> \o TemplateStr(Head(entries).value)
         \o (IF Len(entries) > 1 THEN <<"|">> ELSE <<>>)
         \o JoinEntries(Tail(entries))

FiltersStr(filters) == JoinEntries(SortByName(FilterEntries(filters)))

getSearchKey(query, filters) ==
    SearchPrefix \o NormalizeQuery(query)
    \o (IF FiltersStr(filters) # <<>>
        THEN FiltersInfix \o FiltersStr(filters)
        ELSE <<>>)

(***************************************************************************)
(* CacheStore: CacheService over NodeCache.  The cache content is a        *)
(* function from the keys present to entries [value, ttl].                 *)
(***************************************************************************)
TTLCategories == 3600
TTLServices == 1800
TTLSearch == 300
TTLUser == 60
TTLDefault == 600

PrefCategories == <<"c","a","t","e","g","o","r","i","e","s",":">>
PrefServices == <<"s","e","r","v","i","c","e","s",":">>
PrefSearch == <<"s","e","a","r","c","h",":">>
PrefUser == <<"u","s","e","r",":">>

EmptyCache == [k \in {} |-> 0]

\* a variant that ignores the prefix of the key
getCacheTTLForKey_Flat(key) == TTLDefault

getCacheTTLForKey(key) ==
    IF StartsWith(key, PrefCategories) THEN TTLCategories
    ELSE IF StartsWith(key, PrefServices) THEN TTLServices
    ELSE IF StartsWith(key, PrefSearch) THEN TTLSearch
    ELSE IF StartsWith(key, PrefUser) THEN TTLUser
    ELSE TTLDefault

\* get(key): the value is reported by hit; the counters move on every call
cacheGet(c, st, key) ==
    [hit |-> key \in DOMAIN c,
     stats |-> IF key \in DOMAIN c
               THEN [st EXCEPT !.hits = @ + 1]
               ELSE [st EXCEPT !.misses = @ + 1]]

\* the storing part of set (lines 77-86): cacheTTL = ttl || getCacheTTLForKey(key),
\* so that a ttl of 0 and the absent (null) ttl both take the default of the key
StoreEntry(c, st, key, value, ttl) ==
    [ret |-> TRUE,
     cache |-> [k \in DOMAIN c \cup {key} |->
                  IF k = key
                  THEN [value |-> value,
                        ttl |-> IF ttl # 0 THEN ttl ELSE getCacheTTLForKey(key)]
                  ELSE c[k]],
     stats |-> [st EXCEPT !.sets = @ + 1]]

\* a variant without the guard on the value
cacheSet_StoreNull(c, st, key, value, ttl) == StoreEntry(c, st, key, value, ttl)

\* set(key, value, ttl); ttl = 0 stands for the absent (null) argument
cacheSet(c, st, key, value, ttl) ==
    IF value = JsUndefined \/ value = JsNull
    THEN [ret |-> FALSE, cache |-> c, stats |-> st]
    ELSE StoreEntry(c, st, key, value, ttl)

\* delete(key)
cacheDelete(c, key) ==
    [ret |-> IF key \in DOMAIN c THEN 1 ELSE 0,
     cache |-> [k \in DOMAIN c \ {key} |-> c[k]]]

\* pattern.replace('*', '.*'): only the first '*' is replaced
RECURSIVE ReplaceFirstStar(_)
ReplaceFirstStar(p) ==
    IF p = <<>> THEN <<>>
    ELSE IF Head(p) = "*" THEN <<".", "*">> \o Tail(p)
    ELSE <<Head(p)>> \o ReplaceFirstStar(Tail(p))

\* RegExp matching for expressions made of literal characters, '.' and a
\* postfix '*'; the model's patterns hold no other metacharacter
RECURSIVE MatchHere(_, _)
MatchHere(re, s) ==
    IF re = <<>> THEN TRUE
    ELSE IF Len(re) >= 2 /\ re[2] = "*"
         THEN \E k \in 0..Len(s) :
                 /\ \A i \in 1..k : re[1] = "." \/ s[i] = re[1]
                 /\ MatchHere(SubSeq(re, 3, Len(re)), SubSeq(s, k + 1, Len(s)))
         ELSE /\ s # <<>>
              /\ (re[1] = "." \/ re[1] = Head(s))
              /\ MatchHere(Tail(re), Tail(s))

\* regex.test(key): the expression is not anchored
RegexTest(re, s) ==
    \E i \in 1..(Len(s) + 1) : MatchHere(re, SubSeq(s, i, Len(s)))

invalidatePattern(c, pattern) ==
    LET regex == ReplaceFirstStar(pattern)
        matchingKeys == {k \in DOMAIN c : RegexTest(regex, k)}
    IN [ret |-> Cardinality(matchingKeys),
        cache |-> [k \in DOMAIN c \ matchingKeys |-> c[k]]]

\* clear(): flushAll, the counters of the service stay
cacheClear(c) == [ret |-> TRUE, cache |-> EmptyCache]

\* a variant that truncates the rate
getStats_Floor(c, st) ==
    [hits |-> st.hits, misses |-> st.misses, sets |-> st.sets,
     keys |-> Cardinality(DOMAIN c),
     hitRate |-> IF st.hits + st.misses > 0
                 THEN (100 * st.hits) \div (st.hits + st.misses)
                 ELSE 0]

\* getStats(): Math.round(x) is the floor of x + 1/2, here on the exact
\* quotient hits / (hits + misses)
getStats(c, st) ==
    [hits |-> st.hits, misses |-> st.misses, sets |-> st.sets,
     keys |-> Cardinality(DOMAIN c),
     hitRate |-> IF st.hits + st.misses > 0
                 THEN (200 * st.hits + (st.hits + st.misses))
                          \div (2 * (st.hits + st.misses))
                 ELSE 0]

(***************************************************************************)
(* The authoritative store (Service collection) as the search uses it.     *)
(* A document is a record; the collection is the sequence of its           *)
(* documents in insertion order, and document i has id i.                  *)
(***************************************************************************)
Truthy(v) == (v.t = "string" /\ v.s # <<>>) \/ (v.t = "number" /\ v.n # 0)

Min(a, b) == IF a <= b THEN a ELSE b

\* the words of a text: its maximal runs of non-whitespace characters, lower-cased
RECURSIVE WordsOf(_, _)
WordsOf(s, word) ==
    IF s = <<>> THEN (IF word = <<>> THEN <<>> ELSE <<word>>)
    ELSE IF Head(s) \in {" ", "\t", "\n"}
         THEN (IF word = <<>> THEN <<>> ELSE <<word>>) \o WordsOf(Tail(s), <<>>)
         ELSE WordsOf(Tail(s), word \o <<LowerChar(Head(s))>>)

WordSet(s) == UNION {{w[i] : i \in 1..Len(w)} : w \in {WordsOf(s, <<>>)}}

\* $text: { $search: query } over the text index on the title: some word of
\* the query is a word of the title, letter case ignored
TextMatches(queryWords, doc) == queryWords \cap WordSet(doc.title) # {}

\* the query object built by search: text, filters, and the premiumOnly = false
\* restriction for an absent or unverified caller
MatchesSearchQuery(doc, req, caller, queryWords) ==
    /\ (~caller.present \/ ~caller.verified) => ~doc.premiumOnly
    /\ Truthy(req.category) => doc.category = req.category.s
    /\ Truthy(req.location) =>
           Includes(ToLowerCase(doc.location), ToLowerCase(req.location.s))
    /\ Truthy(req.price) => doc.price = req.price.s
    /\ TextMatches(queryWords, doc)

RECURSIVE InsertByRating(_, _)
InsertByRating(d, sorted) ==
    IF sorted = <<>> THEN <<d>>
    ELSE IF d.rating > Head(sorted).rating
         THEN <<d>> \o sorted
         ELSE <<Head(sorted)>> \o InsertByRating(d, Tail(sorted))

\* .sort({ score: textScore, rating: -1 }): the matches of the model all have
\* the same text score, so the order is by rating, ties in insertion order
RECURSIVE SortByRating(_)
SortByRating(docs) ==
    IF docs = <<>> THEN <<>>
    ELSE InsertByRating(docs[Len(docs)],
                        SortByRating(SubSeq(docs, 1, Len(docs) - 1)))

\* Promise.all([Service.find(...).sort().skip().limit(), countDocuments()])
PageOf(matching, skip, limit) ==
    [services |-> SubSeq(SortByRating(matching), skip + 1,
                         Min(skip + limit, Len(matching))),
     total |-> Len(matching)]

LocalQuery(st, req, caller) ==
    CHOOSE result \in
        {PageOf(matching, (req.page - 1) * req.limit, req.limit) :
            matching \in
                UNION {{SelectSeq(st, LAMBDA d : MatchesSearchQuery(d, req, caller, words))}
                       : words \in {WordSet(req.query)}}} :
        TRUE

(***************************************************************************)
(* RemoteEnrichmentClient.customSearch and the ingestion of its results.   *)
(***************************************************************************)
MinPageResults == 5
MinTotalResults == 10
TitlePrefixLen == 20
ContactSentinel == "*** Requiere pago para acceder ***"
ContactDefault == "Informacion no disponible"

\* mutant: both thresholds are required
SufficiencyGate_Both(local) ==
    Len(local.services) >= MinPageResults /\ local.total >= MinTotalResults

\* services.length >= 5 || total >= 10
SufficiencyGate(local) ==
    Len(local.services) >= MinPageResults \/ local.total >= MinTotalResults

\* mutant: an answer without results is treated as a failure
customSearch_ThrowOnEmpty(outcome) ==
    IF outcome.kind = "ok" /\ outcome.results # <<>>
    THEN [threw |-> FALSE, success |-> TRUE, results |-> outcome.results]
    ELSE [threw |-> TRUE, success |-> FALSE, results |-> <<>>]

\* customSearch: a 200 answer gives {success, results}; every other outcome
\* of the request (transport failure, timeout, error status) is rethrown
customSearch(outcome) ==
    IF outcome.kind = "ok"
    THEN [threw |-> FALSE, success |-> TRUE, results |-> outcome.results]
    ELSE [threw |-> TRUE, success |-> FALSE, results |-> <<>>]

\* the documents matching { $or: [{ sourceUrl }, { title: /prefix/i, category }] }
ExistingHits(st, result, categoryId, prefix) ==
    {i \in 1..Len(st) :
        \/ st[i].sourceUrl = result.sourceUrl
        \/ /\ Truthy(categoryId)
           /\ st[i].category = categoryId.s
           /\ Includes(ToLowerCase(st[i].title), prefix)}

\* Service.findOne(...) with the first TitlePrefixLen characters of the title:
\* index of the first matching document, 0 if none
FindExisting(st, result, categoryId) ==
    CHOOSE found \in
        {IF hits = {} THEN 0 ELSE CHOOSE i \in hits : \A j \in hits : i <= j :
            hits \in {ExistingHits(st, result, categoryId,
                          ToLowerCase(SubSeq(result.title, 1,
                              Min(TitlePrefixLen, Len(result.title)))))}} :
        TRUE

\* result.price || '$$'
DefaultPrice == <<"$", "$">>

\* value || fallback for a numeric field of a remote result
NumOr(v, fallback) == IF Truthy(v) THEN v.n ELSE fallback

\* new Service({...}) built from a remote result
NewService(id, result, categoryId) ==
    [id |-> id,
     title |-> result.title,
     category |-> categoryId.s,
     price |-> IF Truthy(result.price) THEN result.price.s ELSE DefaultPrice,
     location |-> result.location,
     rating |-> NumOr(result.rating, 0),
     relevance |-> NumOr(result.relevance, 0),
     contactInfo |-> IF result.contactInfo # "" THEN result.contactInfo
                     ELSE ContactDefault,
     sourceUrl |-> result.sourceUrl,
     premiumOnly |-> TRUE,
     verified |-> FALSE]

\* a variant whose first failing result ends the loop
RECURSIVE IngestResults_AbortOnFailure(_, _, _, _)
IngestResults_AbortOnFailure(results, st, categoryId, acc) ==
    IF results = <<>> THEN [store |-> st] @@ acc
    ELSE LET result == Head(results)
             found == FindExisting(st, result, categoryId)
         IN IF Truthy(result.category) \/ (found = 0 /\ ~Truthy(categoryId))
            THEN [store |-> st] @@ [acc EXCEPT !.failed = @ + 1,
                                               !.outcomes = Append(@, "failed")]
            ELSE IF found # 0
            THEN IngestResults_AbortOnFailure(Tail(results), st, categoryId,
                     [acc EXCEPT !.newServices = Append(@, st[found]),
                                 !.matched = @ + 1,
                                 !.outcomes = Append(@, "matched")])
            ELSE LET doc == NewService(Len(st) + 1, result, categoryId)
                 IN IngestResults_AbortOnFailure(Tail(results), Append(st, doc), categoryId,
                        [acc EXCEPT !.newServices = Append(@, doc),
                                    !.inserted = @ + 1,
                                    !.outcomes = Append(@, "inserted")])

\* the loop over pythonResults.results.  For each result: a category given as
\* a string reaches the reference to the undeclared name mongoose, which
\* throws; a result that matches an existing document resolves to it; the
\* save of a new document fails validation when no category id is known.
\* A throw leaves the result out and the loop goes on.
RECURSIVE IngestResults(_, _, _, _)
IngestResults(results, st, categoryId, acc) ==
    IF results = <<>> THEN [store |-> st] @@ acc
    ELSE LET result == Head(results)
             found == FindExisting(st, result, categoryId)
         IN IF Truthy(result.category)
            THEN IngestResults(Tail(results), st, categoryId,
                               [acc EXCEPT !.failed = @ + 1,
                                           !.outcomes = Append(@, "failed")])
            ELSE IF found # 0
            THEN IngestResults(Tail(results), st, categoryId,
                               [acc EXCEPT !.newServices = Append(@, st[found]),
                                           !.matched = @ + 1,
                                           !.outcomes = Append(@, "matched")])
            ELSE IF ~Truthy(categoryId)
            THEN IngestResults(Tail(results), st, categoryId,
                               [acc EXCEPT !.failed = @ + 1,
                                           !.outcomes = Append(@, "failed")])
            ELSE LET doc == NewService(Len(st) + 1, result, categoryId)
                 IN IngestResults(Tail(results), Append(st, doc), categoryId,
                                  [acc EXCEPT !.newServices = Append(@, doc),
                                              !.inserted = @ + 1,
                                              !.outcomes = Append(@, "inserted")])

\* the Map keyed by _id: local documents first, then the new ones whose id
\* is not yet a key; Array.from(map.values()) is in insertion order
RECURSIVE AddIfAbsent(_, _)
AddIfAbsent(combined, docs) ==
    IF docs = <<>> THEN combined
    ELSE IF \E i \in 1..Len(combined) : combined[i].id = Head(docs).id
         THEN AddIfAbsent(combined, Tail(docs))
         ELSE AddIfAbsent(Append(combined, Head(docs)), Tail(docs))

\* mutant: the local documents are not put into the map
CombineServices_NewOnly(services, newServices) == AddIfAbsent(<<>>, newServices)

CombineServices(services, newServices) ==
    AddIfAbsent(AddIfAbsent(<<>>, services), newServices)

\* the comparator of the combined sort; relevance < 0 stands for undefined
CompareCombined(a, b) ==
    IF a.relevance >= 0 /\ b.relevance >= 0
    THEN b.relevance - a.relevance
    ELSE b.rating - a.rating

RECURSIVE InsertCombined(_, _)
InsertCombined(d, sorted) ==
    IF sorted = <<>> THEN <<d>>
    ELSE IF CompareCombined(d, Head(sorted)) < 0
         THEN <<d>> \o sorted
         ELSE <<Head(sorted)>> \o InsertCombined(d, Tail(sorted))

\* Array.prototype.sort with CompareCombined (stable)
RECURSIVE SortCombined(_)
SortCombined(docs) ==
    IF docs = <<>> THEN <<>>
    ELSE InsertCombined(docs[Len(docs)],
                        SortCombined(SubSeq(docs, 1, Len(docs) - 1)))

\* combinedServices.slice((page - 1) * limit, (page - 1) * limit + limit)
Paginate(docs, page, limit) ==
    SubSeq(docs, (page - 1) * limit + 1, Min((page - 1) * limit + limit, Len(docs)))

\* mutant: the contact is never replaced
Transform_Unredacted(docs) == docs

\* toObject() with the contact of a premium service replaced by the sentinel
Transform(docs) ==
    [i \in 1..Len(docs) |->
        IF docs[i].premiumOnly
        THEN [docs[i] EXCEPT !.contactInfo = ContactSentinel]
        ELSE docs[i]]

(***************************************************************************)
(* SearchOrchestrator: the search handler of searchController.js.          *)
(***************************************************************************)
MinQueryLen == 2
MaxQueryChars == 100
MaxLimit == 50

\* the names of the filters search hands to getSearchKey
NameCategory == <<"c","a","t","e","g","o","r","y">>
NameLocation == <<"l","o","c","a","t","i","o","n">>
NamePrice == <<"p","r","i","c","e">>
NamePage == <<"p","a","g","e">>
NameLimit == <<"l","i","m","i","t">>

\* Joi.string().valid('$', '$$', '$$$', '$$$$', '').allow(null), not required
PriceTiers == {<<"$">>, <<"$", "$">>, <<"$", "$", "$">>, <<"$", "$", "$", "$">>}

ValidPrice(price) ==
    \/ price.t \in {"undefined", "null"}
    \/ price.t = "string" /\ price.s \in PriceTiers \cup {<<>>}

\* a variant that accepts any price
ValidSearch_AnyPrice(req) ==
    /\ Len(req.query) >= MinQueryLen /\ Len(req.query) <= MaxQueryChars
    /\ req.page >= 1
    /\ req.limit >= 1 /\ req.limit <= MaxLimit

\* schemas.search on a request whose query, category and location are strings
\* (or absent) and whose page and limit are integers
ValidSearch(req) ==
    /\ Len(req.query) >= MinQueryLen /\ Len(req.query) <= MaxQueryChars
    /\ ValidPrice(req.price)
    /\ req.page >= 1
    /\ req.limit >= 1 /\ req.limit <= MaxLimit

\* getSearchKey(query, { category, location, price, page, limit })
\* { category, location, price, page, limit } of line 44
FiltersOf(req) ==
    <<[name |-> NameCategory, value |-> req.category],
      [name |-> NameLocation, value |-> req.location],
      [name |-> NamePrice, value |-> req.price],
      [name |-> NamePage, value |-> JsNum(req.page)],
      [name |-> NameLimit, value |-> JsNum(req.limit)]>>

SearchCacheKey(req) == getSearchKey(req.query, FiltersOf(req))

\* a variant that answers every failure as an empty success
ErrorResponse_EmptySuccess(code) ==
    [status |-> 200, data |-> <<>>, page |-> 0, limit |-> 0, total |-> 0]

ErrorResponse(code) ==
    [status |-> code, data |-> <<>>, page |-> 0, limit |-> 0, total |-> 0]

\* responseFormatter.paginated
Paginated(data, page, limit, total) ==
    [status |-> 200, data |-> data, page |-> page, limit |-> limit, total |-> total]

RecentSearchCap == 10

\* a variant that never drops an entry
addRecentSearch_NoCap(recentSearches, query, now) ==
    <<[query |-> query, timestamp |-> now]>> \o recentSearches

\* UserSchema.methods.addRecentSearch: unshift, then keep the first 10
addRecentSearch(recentSearches, query, now) ==
    LET added == <<[query |-> query, timestamp |-> now]>> \o recentSearches
    IN IF Len(added) > RecentSearchCap
       THEN SubSeq(added, 1, RecentSearchCap)
       ELSE added

\* lines 112-122: the history of an authenticated caller found in the User
\* collection gets the query
RecordSearch(us, caller, query, now) ==
    IF caller.present /\ caller.id # 0 /\ caller.id \in DOMAIN us
    THEN [us EXCEPT ![caller.id] = addRecentSearch(@, query, now)]
    ELSE us

\* a variant that caches the length of the page as the total
ResultEntry_PageTotal(data, page, limit, total) ==
    [data |-> data, page |-> page, limit |-> limit, total |-> Len(data)]

\* the object handed to cacheService.set (lines 102-107, 246-251, 293-298)
ResultEntry(data, page, limit, total) ==
    [data |-> data, page |-> page, limit |-> limit, total |-> total]

\* a variant that reports the length of the cached page as the total
HitResponse_PageTotal(cachedResults) ==
    Paginated(cachedResults.data, cachedResults.page, cachedResults.limit,
              Len(cachedResults.data))

\* lines 47-56: the response built from the cached object
HitResponse(cachedResults) ==
    Paginated(cachedResults.data, cachedResults.page, cachedResults.limit,
              cachedResults.total)

NoIngest == [newServices |-> <<>>, inserted |-> 0, matched |-> 0, failed |-> 0,
             outcomes |-> <<>>]

(***************************************************************************)
(* Specification SpecKey: getSearchKey applied to pairs of inputs.         *)
(***************************************************************************)
QueryAlphabet == {"a", "A", " ", "\t"}
QueryTexts == StrOfMaxLen(QueryAlphabet, MaxQueryLen)

FilterNames == {NameCategory, NameLocation, NamePage}
FilterValues == {JsNull, JsUndefined, JsStr(<<>>), JsStr(<<"x">>), JsNum(1)}

\* filter objects: at most MaxFilters entries, no name twice
FilterMaps ==
    UNION {{f \in [1..k -> [name : FilterNames, value : FilterValues]] :
               \A i, j \in 1..k : i # j => f[i].name # f[j].name}
           : k \in 0..MaxFilters}

SampleFilters == {<<[name |-> NameLocation, value |-> JsStr(<<"x">>)]>>}
SampleQueries == {<<"a", " ", "A">>}

IdleCache == EmptyCache
IdleStats == [hits |-> 0, misses |-> 0, sets |-> 0]
IdleCacheOp == [op |-> "none", arg |-> <<>>, value |-> JsUndefined, ttl |-> 0,
                ret |-> 0, before |-> EmptyCache, n |-> 0, gets |-> 0]
IdleResp == [status |-> 0, data |-> <<>>, page |-> 0, limit |-> 0, total |-> 0]
IdleTrace == [path |-> "none"]
IdleClient == [page |-> 1, limit |-> 1, category |-> JsUndefined]
NoCall == [kind |-> "none", log |-> <<>>, settled |-> "none",
           result |-> [raised |-> FALSE, value |-> FALSE]]
IdleApi == [phase |-> "idle", kind |-> "none",
            config |-> [retry |-> FALSE, retryCount |-> JsUndefined],
            attempts |-> 0, log |-> <<>>, settled |-> "none", delayMs |-> 0,
            calls |-> 0, last |-> NoCall]
IdleHistory == [recentSearches |-> <<>>, clock |-> 0, n |-> 0, op |-> "none", arg |-> <<>>]
IdleAdmin == [services |-> <<>>, categories |-> <<>>, op |-> "none", id |-> <<>>,
              cat |-> <<>>, status |-> 0, removed |-> 0, n |-> 0]
IdleUsers == [id \in {} |-> <<>>]
IdleProc == <<>>

\* two texts differ only by letter case and by the amount of whitespace
\* at the ends or between words
SameWords(a, b) == WordsOf(a, <<>>) = WordsOf(b, <<>>)

RetainedEntries(f) ==
    {f[i] : i \in {j \in 1..Len(f) :
                     f[j].value \notin {JsNull, JsUndefined, JsStr(<<>>)}}}

\* two filter objects hold the same entries once null, undefined and '' are dropped
SameEntries(f, g) == RetainedEntries(f) = RetainedEntries(g)

InitKey ==
    /\ \/ \E a, b \in QueryTexts : \E f \in SampleFilters :
              /\ SameWords(a, b)
              /\ keyIn = [q1 |-> a, q2 |-> b, f1 |-> f, f2 |-> f]
       \/ \E f, g \in FilterMaps : \E a \in SampleQueries :
              /\ SameEntries(f, g)
              /\ keyIn = [q1 |-> a, q2 |-> a, f1 |-> f, f2 |-> g]
    /\ keyOut = [done |-> FALSE, a |-> <<>>, b |-> <<>>]
    /\ cache = IdleCache
    /\ stats = IdleStats
    /\ cacheOp = IdleCacheOp
    /\ store = <<>>
    /\ resp = IdleResp
    /\ trace = IdleTrace
    /\ client = IdleClient
    /\ nReq = 0
    /\ api = IdleApi
    /\ history = IdleHistory
    /\ admin = IdleAdmin
    /\ users = IdleUsers
    /\ proc = IdleProc

BuildKeys ==
    /\ ~keyOut.done
    /\ keyOut' = [done |-> TRUE,
                  a |-> getSearchKey(keyIn.q1, keyIn.f1),
                  b |-> getSearchKey(keyIn.q2, keyIn.f2)]
    /\ UNCHANGED <<keyIn, cache, stats, cacheOp, store, resp, trace, client, nReq,
                   api, history, admin, users, proc>>

NextKey == BuildKeys

SpecKey == InitKey /\ [][NextKey]_vars

(***************************************************************************)
(* Specification SpecInject: the keys of two search requests that          *)
(* schemas.search accepts, whose texts may hold the separators of the key. *)
(***************************************************************************)
InjectQueries ==
    {<<"a","b">>, <<"A","B">>, <<"a","b",":","f","i","l","t","e","r","s",":","p","a","g","e",":","1">>,
     <<"a","b",":","f","i","l","t","e","r","s",":","l","i","m","i","t",":","9","|","l","o","c","a","t","i","o","n",":","z">>}

InjectLocations ==
    {JsUndefined, JsStr(<<"z">>), JsStr(<<"z",":","f","i","l","t","e","r","s",":","l","i","m","i","t",":","5">>)}

\* the bodies of the two requests, and the filter objects getSearchKey is
\* handed with and without them
InjectRequests ==
    {r \in [query : InjectQueries, category : {JsUndefined},
            location : InjectLocations, price : {JsUndefined},
            page : {1}, limit : {5, 9}] : ValidSearch(r)}

InitInject ==
    /\ \E r1, r2 \in InjectRequests : \E bare \in BOOLEAN :
           keyIn = [q1 |-> r1.query, q2 |-> r2.query,
                    f1 |-> IF bare THEN <<>> ELSE FiltersOf(r1),
                    f2 |-> IF bare THEN <<[name |-> NamePage, value |-> JsNum(r2.page)]>>
                           ELSE FiltersOf(r2)]
    /\ keyOut = [done |-> FALSE, a |-> <<>>, b |-> <<>>]
    /\ cache = IdleCache
    /\ stats = IdleStats
    /\ cacheOp = IdleCacheOp
    /\ store = <<>>
    /\ resp = IdleResp
    /\ trace = IdleTrace
    /\ client = IdleClient
    /\ nReq = 0
    /\ api = IdleApi
    /\ history = IdleHistory
    /\ admin = IdleAdmin
    /\ users = IdleUsers
    /\ proc = IdleProc

SpecInject == InitInject /\ [][NextKey]_vars

\* C5: query texts that differ only by letter case, leading or trailing
\* whitespace, or runs of internal whitespace get identical keys when the
\* filter map is the same.
C5_SameKeyForEquivalentQueries ==
    (keyOut.done /\ keyIn.f1 = keyIn.f2 /\ SameWords(keyIn.q1, keyIn.q2))
        => keyOut.a = keyOut.b

\* a pair differing in case, in leading whitespace and in an internal run
C5_Witness ==
    /\ keyOut.done
    /\ keyIn.q1 = <<"A", " ", "\t", "a">>
    /\ keyIn.q2 = <<" ", "a", " ", "A">>
    /\ keyOut.a = keyOut.b

\* C6: filter maps holding the same entries once null, undefined and
\* empty-string values are dropped get identical keys whatever the insertion
\* order, and a map with no remaining entry gives the key without filters part.
C6_SameKeyForEquivalentFilters ==
    (keyOut.done /\ keyIn.q1 = keyIn.q2 /\ SameEntries(keyIn.f1, keyIn.f2))
        => /\ keyOut.a = keyOut.b
           /\ RetainedEntries(keyIn.f1) = {}
                  => keyOut.a = SearchPrefix \o NormalizeQuery(keyIn.q1)

\* two retained entries in opposite insertion orders
C6_Witness ==
    /\ keyOut.done
    /\ Len(keyIn.f1) = 2 /\ Len(keyIn.f2) = 2
    /\ keyIn.f1[1] = keyIn.f2[2] /\ keyIn.f1[2] = keyIn.f2[1]
    /\ Cardinality(RetainedEntries(keyIn.f1)) = 2
    /\ keyOut.a = keyOut.b

(***************************************************************************)
(* Specification SpecCache: the cache operations on a populated cache.     *)
(***************************************************************************)
PrefServicesCategory == PrefServices \o <<"c","a","t","e","g","o","r","y",":">>
PrefServicesId == PrefServices \o <<"i","d",":">>
PrefServicesFeatured == PrefServices \o <<"f","e","a","t","u","r","e","d",":">>

PageOneFilters ==
    <<[name |-> NamePage, value |-> JsNum(1)],
      [name |-> NameLimit, value |-> JsNum(5)]>>

\* keys of every namespace, among them search keys whose query text is
\* itself the text of a key of another namespace
CacheKeys ==
    {PrefServicesCategory \o <<"7",":","p","a","g","e",":","1">>,
     PrefServicesCategory \o <<"7","1",":","p","a","g","e",":","1">>,
     PrefServicesId \o <<"7">>,
     PrefCategories \o <<"7">>,
     PrefUser \o <<"7",":","p","r","o","f","i","l","e">>,
     <<"u","s","e","r","s",":","7">>,
     getSearchKey(PrefCategories, PageOneFilters),
     getSearchKey(PrefServicesCategory \o <<"7",":">>, PageOneFilters)}

\* the literal prefixes handed to invalidatePattern, each followed by '*'
PatternPrefixes ==
    {PrefCategories,
     PrefServicesCategory \o <<"7", ":">>,
     PrefServicesFeatured,
     PrefUser \o <<"7", ":">>,
     PrefSearch,
     <<>>}

\* the values handed to set, null and undefined among them; the entries the
\* cache starts with hold JsNum(1)
CacheValues == {JsNum(2), JsNull, JsUndefined}

\* the ttl argument of set: 0 for the absent argument, or an explicit lifetime
ExplicitTTL == 45
TTLArgs == {0, ExplicitTTL}

\* the caches the operations start from: empty, one entry, or every key
InitialKeySets == {{}, CacheKeys} \cup {{k} : k \in CacheKeys}

InitCache ==
    /\ \E keys \in InitialKeySets :
           cache = [k \in keys |-> [value |-> JsNum(1), ttl |-> getCacheTTLForKey(k)]]
    /\ stats = IdleStats
    /\ cacheOp = IdleCacheOp
    /\ keyIn = [q1 |-> <<>>, q2 |-> <<>>, f1 |-> <<>>, f2 |-> <<>>]
    /\ keyOut = [done |-> FALSE, a |-> <<>>, b |-> <<>>]
    /\ store = <<>>
    /\ resp = IdleResp
    /\ trace = IdleTrace
    /\ client = IdleClient
    /\ nReq = 0
    /\ api = IdleApi
    /\ history = IdleHistory
    /\ admin = IdleAdmin
    /\ users = IdleUsers
    /\ proc = IdleProc

CacheIdle ==
    UNCHANGED <<keyIn, keyOut, store, resp, trace, client, nReq, api, history, admin,
                users, proc>>

\* the steps of the operations, without the bound on their number
GetStep(key) ==
    /\ stats' = cacheGet(cache, stats, key).stats
    /\ cacheOp' = [IdleCacheOp EXCEPT !.op = "get", !.arg = key,
                      !.ret = IF cacheGet(cache, stats, key).hit THEN 1 ELSE 0,
                      !.before = cache, !.n = cacheOp.n + 1,
                      !.gets = cacheOp.gets + 1]
    /\ UNCHANGED cache
    /\ CacheIdle

SetStep(key, value, ttl) ==
    /\ \E wrote \in {cacheSet(cache, stats, key, value, ttl)} :
           /\ cache' = wrote.cache
           /\ stats' = wrote.stats
           /\ cacheOp' = [IdleCacheOp EXCEPT !.op = "set", !.arg = key,
                             !.value = value, !.ttl = ttl,
                             !.ret = IF wrote.ret THEN 1 ELSE 0,
                             !.before = cache, !.n = cacheOp.n + 1,
                             !.gets = cacheOp.gets]
    /\ CacheIdle

DeleteStep(key) ==
    /\ cache' = cacheDelete(cache, key).cache
    /\ cacheOp' = [IdleCacheOp EXCEPT !.op = "delete", !.arg = key,
                      !.ret = cacheDelete(cache, key).ret,
                      !.before = cache, !.n = cacheOp.n + 1,
                      !.gets = cacheOp.gets]
    /\ UNCHANGED stats
    /\ CacheIdle

InvalidatePatternStep(prefix) ==
    /\ \E done \in {invalidatePattern(cache, prefix \o <<"*">>)} :
           /\ cache' = done.cache
           /\ cacheOp' = [IdleCacheOp EXCEPT !.op = "invalidatePattern", !.arg = prefix,
                             !.ret = done.ret,
                             !.before = cache, !.n = cacheOp.n + 1,
                             !.gets = cacheOp.gets]
    /\ UNCHANGED stats
    /\ CacheIdle

ClearStep ==
    /\ cache' = cacheClear(cache).cache
    /\ cacheOp' = [IdleCacheOp EXCEPT !.op = "clear", !.ret = 1,
                      !.before = cache, !.n = cacheOp.n + 1,
                      !.gets = cacheOp.gets]
    /\ UNCHANGED stats
    /\ CacheIdle

OpGet(key) ==
    /\ cacheOp.n < MaxCacheOps
    /\ GetStep(key)

OpSet(key, value, ttl) ==
    /\ cacheOp.n < MaxCacheOps
    /\ SetStep(key, value, ttl)

OpDelete(key) ==
    /\ cacheOp.n < MaxCacheOps
    /\ DeleteStep(key)

OpInvalidatePattern(prefix) ==
    /\ cacheOp.n < MaxCacheOps
    /\ InvalidatePatternStep(prefix)

OpClear ==
    /\ cacheOp.n < MaxCacheOps
    /\ ClearStep

NextCache ==
    \/ \E key \in CacheKeys : OpGet(key)
    \/ \E key \in CacheKeys : \E value \in CacheValues : \E ttl \in TTLArgs :
           OpSet(key, value, ttl)
    \/ \E key \in CacheKeys : OpDelete(key)
    \/ \E prefix \in PatternPrefixes : OpInvalidatePattern(prefix)
    \/ OpClear

SpecCache == InitCache /\ [][NextCache]_vars

(***************************************************************************)
(* Specification SpecStats: longer runs of the cache operations on two     *)
(* keys, from the cache as the constructor leaves it, with getStats and    *)
(* the expiry of entries.                                                  *)
(***************************************************************************)
StatKeys ==
    {PrefCategories \o <<"7">>,
     getSearchKey(PrefCategories, PageOneFilters)}

InitStats ==
    /\ InitCache
    /\ cache = EmptyCache

StatsGet(key) ==
    /\ cacheOp.n < MaxStatOps
    /\ GetStep(key)

StatsSet(key) ==
    /\ cacheOp.n < MaxStatOps
    /\ SetStep(key, JsNum(2), 0)

StatsDelete(key) ==
    /\ cacheOp.n < MaxStatOps
    /\ DeleteStep(key)

StatsInvalidatePattern ==
    /\ cacheOp.n < MaxStatOps
    /\ InvalidatePatternStep(PrefSearch)

StatsClear ==
    /\ cacheOp.n < MaxStatOps
    /\ ClearStep

\* the lifetime of an entry has passed: NodeCache no longer returns it
Expire(key) ==
    /\ cacheOp.n < MaxStatOps
    /\ key \in DOMAIN cache
    /\ cache' = [k \in DOMAIN cache \ {key} |-> cache[k]]
    /\ cacheOp' = [IdleCacheOp EXCEPT !.op = "expired", !.arg = key,
                      !.before = cache, !.n = cacheOp.n + 1,
                      !.gets = cacheOp.gets]
    /\ UNCHANGED stats
    /\ CacheIdle

\* getStats() is called; the reported hit rate is kept in ret
GetStats ==
    /\ cacheOp.n < MaxStatOps
    /\ cacheOp' = [IdleCacheOp EXCEPT !.op = "getStats",
                      !.ret = getStats(cache, stats).hitRate,
                      !.before = cache, !.n = cacheOp.n + 1,
                      !.gets = cacheOp.gets]
    /\ UNCHANGED <<cache, stats>>
    /\ CacheIdle

NextStats ==
    \/ \E key \in StatKeys : StatsGet(key)
    \/ \E key \in StatKeys : StatsSet(key)
    \/ \E key \in StatKeys : StatsDelete(key)
    \/ StatsInvalidatePattern
    \/ StatsClear
    \/ \E key \in StatKeys : Expire(key)
    \/ GetStats

SpecStats == InitStats /\ [][NextStats]_vars

\* C3: invalidatePattern(P + "*") removes exactly the cached keys that start
\* with the literal prefix P, leaves every other key and its value unchanged,
\* and returns the number of keys it removed.
C3_RemovesExactlyPrefixedKeys ==
    cacheOp.op = "invalidatePattern" =>
        LET removed == {k \in DOMAIN cacheOp.before : StartsWith(k, cacheOp.arg)}
        IN /\ DOMAIN cache = DOMAIN cacheOp.before \ removed
           /\ \A k \in DOMAIN cache : cache[k] = cacheOp.before[k]
           /\ cacheOp.ret = Cardinality(removed)

(***************************************************************************)
(* Specification Spec: search requests against a populated store.          *)
(***************************************************************************)
CatId == <<"c", "1">>

\* documents already in the collection: public ones, then premium ones
LocalDoc(i, premium) ==
    [id |-> i,
     title |-> <<"a", "b", " ", "l">> \o NumStr(i),
     category |-> CatId,
     price |-> IF i % 2 = 0 THEN <<"$">> ELSE DefaultPrice,
     location |-> <<"A", "u">>,
     rating |-> i % 3,
     relevance |-> IF i % 4 = 0 THEN 80 ELSE 50,
     contactInfo |-> "tel-local",
     sourceUrl |-> <<"l">> \o NumStr(i),
     premiumOnly |-> premium,
     verified |-> TRUE]

InitialStore(nPublic, nPremium) ==
    [i \in 1..(nPublic + nPremium) |-> LocalDoc(i, i > nPublic)]

\* results of the remote service
NewResult(i) ==
    [title |-> <<"a", "b", " ", "r">> \o NumStr(i),
     category |-> JsUndefined,
     price |-> JsUndefined,
     location |-> <<"A", "u">>,
     rating |-> JsNum(i % 3),
     relevance |-> IF i % 2 = 0 THEN JsNum(80) ELSE JsUndefined,
     contactInfo |-> IF i % 2 = 0 THEN "tel-remote" ELSE "",
     sourceUrl |-> <<"r">> \o NumStr(i)]

\* a result carrying its category as a name
NamedCategoryResult ==
    [NewResult(0) EXCEPT !.category = JsStr(<<"p", "l">>)]

\* a result whose source is the source of local document 1
KnownSourceResult ==
    [NewResult(0) EXCEPT !.title = <<"z">>, !.sourceUrl = <<"l", "1">>]

RemoteBatches ==
    {[i \in 1..k |-> NewResult(i)] : k \in {0, 1, MaxRemote}}
    \cup {<<KnownSourceResult, NamedCategoryResult, NewResult(1)>>}

RemoteOutcomes ==
    {[kind |-> "fail", results |-> <<>>]}
    \cup {[kind |-> "ok", results |-> b] : b \in RemoteBatches}

NoCaller == [present |-> FALSE, verified |-> FALSE, id |-> 0]
Callers == {NoCaller,
            [present |-> TRUE, verified |-> FALSE, id |-> 1],
            [present |-> TRUE, verified |-> TRUE, id |-> 2]}

\* the users the callers of the model are
InitialUsers == [id \in {1, 2} |-> <<>>]

\* the query texts and locations a client types
ClientTexts ==
    {[query |-> <<"a", "b", " ">>, location |-> JsStr(<<"A", "u">>)],
     [query |-> <<"A", "B">>, location |-> JsStr(<<"a", "u">>)]}

ClientShapes ==
    [page : {1, 2}, limit : {2, 5}, category : {JsUndefined, JsStr(CatId)}]

NoRequest == [query |-> <<>>, category |-> JsUndefined, location |-> JsUndefined,
              price |-> JsUndefined, page |-> 0, limit |-> 0]

InitTrace ==
    [path |-> "none", req |-> NoRequest, caller |-> NoCaller, fault |-> "none",
     did |-> [services |-> <<>>, total |-> 0,
              remoteCalled |-> FALSE, outcome |-> "none", nResults |-> 0,
              inserted |-> 0, matched |-> 0, failed |-> 0, outcomes |-> <<>>,
              before |-> 0, results |-> <<>>, combined |-> <<>>]]

\* numbers of public documents around the two thresholds of the gate
PublicCounts ==
    {0, 1, MinPageResults - 1, MinPageResults, MinTotalResults - 1, MaxPublic}

Init ==
    /\ \E nPublic \in PublicCounts : \E nPremium \in {0, MaxPremium} :
           store = InitialStore(nPublic, nPremium)
    /\ client \in ClientShapes
    /\ cache = EmptyCache
    /\ stats = [hits |-> 0, misses |-> 0, sets |-> 0]
    /\ resp = IdleResp
    /\ trace = InitTrace
    /\ nReq = 0
    /\ cacheOp = IdleCacheOp
    /\ keyIn = [q1 |-> <<>>, q2 |-> <<>>, f1 |-> <<>>, f2 |-> <<>>]
    /\ keyOut = [done |-> FALSE, a |-> <<>>, b |-> <<>>]
    /\ api = IdleApi
    /\ history = IdleHistory
    /\ admin = IdleAdmin
    /\ users = InitialUsers
    /\ proc = IdleProc

\* the cache operations of the handler that may throw: getSearchKey (line 44),
\* get (line 45), set (lines 109, 253, 300); "none" is the run without a throw
CacheFaults == {"key", "get", "set"}

\* the store query of lines 75-83 rejects
StoreFaults == {"store"}

\* the operations of the history update that may reject: User.findById
\* (lines 114, 258, 305) and user.save (lines 117, 261, 308)
HistoryFaults == {"load", "save"}

\* the history update runs for a caller with an id
UpdatesHistory(caller) == caller.present /\ caller.id # 0

\* a variant without the inner try: the rejection reaches the catch of the handler
UpdateHistory_Propagate(us, caller, query, now, fault) ==
    [threw |-> fault \in HistoryFaults /\ UpdatesHistory(caller),
     users |-> IF fault \in HistoryFaults THEN us
               ELSE RecordSearch(us, caller, query, now)]

\* lines 112-122: the update inside its own try; a rejection of findById or
\* of save is logged, the stored history stays, and nothing is thrown on
UpdateHistory(us, caller, query, now, fault) ==
    [threw |-> FALSE,
     users |-> IF fault \in HistoryFaults THEN us
               ELSE RecordSearch(us, caller, query, now)]

\* cacheService.set(cacheKey, result), the history of the caller, then the
\* paginated response; a throw of set reaches the catch of the handler before
\* the history and the response are written
CacheAndRespond(key, looked, req, caller, data, total, fault) ==
    IF fault = "set"
    THEN /\ resp' = ErrorResponse(500)
         /\ stats' = looked.stats
         /\ UNCHANGED <<cache, users>>
    ELSE
    \E result \in {ResultEntry(data, req.page, req.limit, total)} :
    \E wrote \in {cacheSet(cache, looked.stats, key, result, 0)} :
    \E hist \in {UpdateHistory(users, caller, req.query, nReq + 1, fault)} :
        /\ cache' = wrote.cache
        /\ stats' = wrote.stats
        /\ users' = hist.users
        /\ resp' = IF hist.threw THEN ErrorResponse(500)
                   ELSE Paginated(data, req.page, req.limit, total)

\* search: the whole handler for one request, in which the operation named by
\* fault (if any) throws
SearchHandler(caller, req, fault) ==
    /\ nReq' = nReq + 1
    /\ \E tr \in {[path |-> "none", req |-> req, caller |-> caller, fault |-> fault,
                   did |-> InitTrace.did]} :
           IF ~ValidSearch(req)
           THEN /\ resp' = ErrorResponse(400)
                /\ trace' = [tr EXCEPT !.path = "invalid"]
                /\ UNCHANGED <<cache, stats, store, users>>
           ELSE
           \E key \in {SearchCacheKey(req)} :
           \E looked \in {cacheGet(cache, stats, key)} :
           IF fault \in {"key", "get"}
           THEN \* the throw reaches the catch of the handler (lines 322-329)
                /\ resp' = ErrorResponse(500)
                /\ trace' = [tr EXCEPT !.path = "fault"]
                /\ UNCHANGED <<cache, stats, store, users>>
           ELSE IF looked.hit
           THEN /\ resp' = HitResponse(cache[key].value)
                /\ stats' = looked.stats
                /\ trace' = [tr EXCEPT !.path = "hit"]
                /\ UNCHANGED <<cache, store, users>>
           ELSE IF fault = "store"
           THEN \* Promise.all rejects: the catch of the handler answers
                /\ resp' = ErrorResponse(500)
                /\ stats' = looked.stats
                /\ trace' = [tr EXCEPT !.path = "storeError"]
                /\ UNCHANGED <<cache, store, users>>
           ELSE
           \E local \in {LocalQuery(store, req, caller)} :
           \E did \in {[InitTrace.did EXCEPT !.services = local.services,
                                             !.total = local.total]} :
               IF SufficiencyGate(local)
               THEN /\ CacheAndRespond(key, looked, req, caller,
                                       Transform(local.services), local.total, fault)
                    /\ trace' = [tr EXCEPT !.path = "local", !.did = did]
                    /\ UNCHANGED store
               ELSE
               \E outcome \in RemoteOutcomes :
               \E remote \in {customSearch(outcome)} :
               \E called \in {[did EXCEPT !.remoteCalled = TRUE,
                                          !.outcome = outcome.kind,
                                          !.nResults = Len(outcome.results)]} :
                   IF remote.threw
                   THEN \* the rethrown error reaches the catch of the handler
                        /\ resp' = ErrorResponse(500)
                        /\ stats' = looked.stats
                        /\ trace' = [tr EXCEPT !.path = "error", !.did = called]
                        /\ UNCHANGED <<cache, store, users>>
                   ELSE IF remote.success /\ Len(remote.results) > 0
                   THEN \E ingest \in {IngestResults(remote.results, store,
                                                     req.category, NoIngest)} :
                        \E combined \in {SortCombined(CombineServices(
                                             local.services, ingest.newServices))} :
                            /\ store' = ingest.store
                            /\ CacheAndRespond(key, looked, req, caller,
                                   Transform(Paginate(combined, req.page, req.limit)),
                                   Len(combined), fault)
                            /\ trace' = [tr EXCEPT !.path = "merged",
                                   !.did = [called EXCEPT
                                       !.inserted = ingest.inserted,
                                       !.matched = ingest.matched,
                                       !.failed = ingest.failed,
                                       !.outcomes = ingest.outcomes,
                                       !.before = Len(store),
                                       !.results = remote.results,
                                       !.combined = combined]]
                   ELSE /\ CacheAndRespond(key, looked, req, caller,
                                           Transform(local.services), local.total, fault)
                        /\ trace' = [tr EXCEPT !.path = "sparse", !.did = called]
                        /\ UNCHANGED store
    /\ UNCHANGED <<keyIn, keyOut, cacheOp, client, api, history, admin, proc>>

\* the request a client sends for a text it typed
RequestOf(text) ==
    [query |-> text.query, category |-> client.category, location |-> text.location,
     price |-> JsUndefined, page |-> client.page, limit |-> client.limit]

\* search with a cache and a store that do not throw
Search(caller, text) ==
    /\ nReq < MaxRequests
    /\ SearchHandler(caller, RequestOf(text), "none")

Next ==
    \E caller \in Callers : \E text \in ClientTexts : Search(caller, text)

Spec == Init /\ [][Next]_vars

(***************************************************************************)
(* Specification SpecFault: search requests during which one cache         *)
(* operation may throw.                                                    *)
(***************************************************************************)
SearchWithFault(caller, text, fault) ==
    /\ nReq < MaxRequests
    /\ SearchHandler(caller, RequestOf(text), fault)

NextFault ==
    \E caller \in Callers : \E text \in ClientTexts :
        \E fault \in CacheFaults \cup StoreFaults \cup {"none"} :
            SearchWithFault(caller, text, fault)

\* stores that are empty, sparse and sufficient, and first-page requests
InitFault ==
    /\ Init
    /\ Len(store) \in {0, MinPageResults - 1, MaxPublic}
    /\ client.page = 1
    /\ client.limit = MinPageResults

SpecFault == InitFault /\ [][NextFault]_vars

(***************************************************************************)
(* Specification SpecHistoryFault: search requests of authenticated        *)
(* callers during which the history update may reject.                     *)
(***************************************************************************)
SearchWithHistoryFault(caller, text, fault) ==
    /\ nReq < MaxRequests
    /\ UpdatesHistory(caller)
    /\ SearchHandler(caller, RequestOf(text), fault)

NextHistoryFault ==
    \E caller \in Callers : \E text \in ClientTexts :
        \E fault \in HistoryFaults \cup {"none"} :
            SearchWithHistoryFault(caller, text, fault)

SpecHistoryFault == InitFault /\ [][NextHistoryFault]_vars

(***************************************************************************)
(* Specification SpecValidate: search requests at and beyond the limits of *)
(* schemas.search, sent to a handler whose cache and store do not throw.   *)
(***************************************************************************)
PlainRequest ==
    [query |-> <<"a", "b">>, category |-> JsUndefined, location |-> JsUndefined,
     price |-> JsUndefined, page |-> 1, limit |-> MinPageResults]

\* query texts of 1, 2 and 101 characters
EdgeQueries ==
    {[i \in 1..n |-> "a"] : n \in {MinQueryLen - 1, MinQueryLen, MaxQueryChars + 1}}

\* prices: absent, null, empty, the four tiers, and two strings that are no tier
EdgePrices ==
    {JsNull, JsStr(<<>>), JsStr(<<"x">>), JsStr(<<"$", "$", "$", "$", "$">>)}
    \cup {JsStr(tier) : tier \in PriceTiers}

\* requests that differ from PlainRequest in one field
EdgeRequests ==
    {PlainRequest}
    \cup {[PlainRequest EXCEPT !.query = q] : q \in EdgeQueries}
    \cup {[PlainRequest EXCEPT !.price = price] : price \in EdgePrices}
    \cup {[PlainRequest EXCEPT !.page = page] : page \in {0, 2}}
    \cup {[PlainRequest EXCEPT !.limit = limit] : limit \in {0, 1, MaxLimit, MaxLimit + 1}}

SearchAny(caller, req) ==
    /\ nReq < MaxRequests
    /\ SearchHandler(caller, req, "none")

\* the requests come from the verified user, whose history search writes
NextValidate ==
    \E caller \in {c \in Callers : c.verified} :
        \E req \in EdgeRequests : SearchAny(caller, req)

InitValidate ==
    /\ Init
    /\ Len(store) \in {MinPageResults - 1, MaxPublic}
    /\ client = [page |-> 1, limit |-> 2, category |-> JsUndefined]

SpecValidate == InitValidate /\ [][NextValidate]_vars

(***************************************************************************)
(* Specification SpecRace: search requests in progress at the same time.   *)
(* A request runs from one await to the next in one step; between two      *)
(* steps of a request the steps of the others may run.  Every request      *)
(* sends RaceRequest with one of RaceQueries, so that all compute the same *)
(* key.                                                                    *)
(***************************************************************************)
RaceRequest ==
    [query |-> <<"a", "b">>, category |-> JsStr(CatId), location |-> JsUndefined,
     price |-> JsUndefined, page |-> 1, limit |-> MinPageResults]

\* the answers of the remote service: a failure, no result, one candidate
RaceOutcomes ==
    {[kind |-> "fail", results |-> <<>>],
     [kind |-> "ok", results |-> <<>>],
     [kind |-> "ok", results |-> <<NewResult(1)>>]}

\* texts that getSearchKey normalizes to the same query
RaceQueries == {<<"a", "b">>, <<"A", "B">>}

NoLocal == [services |-> <<>>, total |-> 0]

\* a request that has not passed its first await
NewRequest(caller, req, key) ==
    [pc |-> "query", caller |-> caller, req |-> req, key |-> key,
     local |-> NoLocal, pending |-> <<>>, newServices |-> <<>>, inserted |-> 0,
     hasWritten |-> FALSE, wrote |-> ResultEntry(<<>>, 0, 0, 0), resp |-> IdleResp,
     responses |-> 0, loaded |-> <<>>]

\* a variant whose catch logs the error and sends nothing
Respond_SilentCatch(rec, answer) ==
    IF answer.status = 500
    THEN [rec EXCEPT !.pc = "done"]
    ELSE [rec EXCEPT !.pc = "done", !.resp = answer, !.responses = @ + 1]

\* return responseFormatter...(res, ...): the response is sent and the
\* handler ends
Respond(rec, answer) ==
    [rec EXCEPT !.pc = "done", !.resp = answer, !.responses = @ + 1]

\* the response of lines 124-130, 268-274, 315-321: what was cached
SuccessOf(rec) ==
    Paginated(rec.wrote.data, rec.wrote.page, rec.wrote.limit, rec.wrote.total)

RaceIdle ==
    UNCHANGED <<keyIn, keyOut, cacheOp, resp, trace, client, nReq, api, history, admin>>

\* lines 18-83: validation, key and get; a hit is answered at once, on a miss
\* the store query is issued
StartRequest(caller, req) ==
    IF ~ValidSearch(req)
    THEN /\ proc' = Append(proc, Respond(NewRequest(caller, req, <<>>),
                                         ErrorResponse(400)))
         /\ UNCHANGED stats
    ELSE
    \E key \in {SearchCacheKey(req)} :
    \E looked \in {cacheGet(cache, stats, key)} :
        /\ stats' = looked.stats
        /\ proc' = Append(proc,
               IF looked.hit
               THEN Respond(NewRequest(caller, req, key),
                            HitResponse(cache[key].value))
               ELSE NewRequest(caller, req, key))

Begin(caller, query) ==
    /\ Len(proc) < MaxConcurrent
    /\ StartRequest(caller, [RaceRequest EXCEPT !.query = query])
    /\ UNCHANGED <<cache, store, users>>
    /\ RaceIdle

\* cacheService.set(cacheKey, result) (lines 109, 253, 300); the request then
\* awaits User.findById
WriteResult(p, rec, data, total) ==
    \E result \in {ResultEntry(data, rec.req.page, rec.req.limit, total)} :
    \E wrote \in {cacheSet(cache, stats, rec.key, result, 0)} :
        /\ cache' = wrote.cache
        /\ stats' = wrote.stats
        /\ proc' = [proc EXCEPT ![p] = [rec EXCEPT !.pc = "finish",
                                                   !.hasWritten = TRUE,
                                                   !.wrote = result]]

\* lines 75-138: the store query has returned
QueryDone(p) ==
    /\ p \in 1..Len(proc)
    /\ proc[p].pc = "query"
    /\ \E local \in {LocalQuery(store, proc[p].req, proc[p].caller)} :
           IF SufficiencyGate(local)
           THEN WriteResult(p, [proc[p] EXCEPT !.local = local],
                            Transform(local.services), local.total)
           ELSE /\ proc' = [proc EXCEPT ![p].pc = "remote", ![p].local = local]
                /\ UNCHANGED <<cache, stats>>
    /\ UNCHANGED <<store, users>>
    /\ RaceIdle

\* the results at the head of the list that throw at line 150 before any await
RECURSIVE SkipNamed(_)
SkipNamed(results) ==
    IF results # <<>> /\ Truthy(Head(results).category)
    THEN SkipNamed(Tail(results))
    ELSE results

\* the loop of lines 145-200 runs on to its next await, the findOne of line
\* 161; after the last result lines 202-253 merge the records and set the cache
Advance(p, rec) ==
    \E pending \in {SkipNamed(rec.pending)} :
        IF pending # <<>>
        THEN /\ proc' = [proc EXCEPT ![p] = [rec EXCEPT !.pc = "find",
                                                       !.pending = pending]]
             /\ UNCHANGED <<cache, stats>>
        ELSE \E combined \in {SortCombined(CombineServices(rec.local.services,
                                                           rec.newServices))} :
                 WriteResult(p, [rec EXCEPT !.pending = <<>>],
                             Transform(Paginate(combined, rec.req.page, rec.req.limit)),
                             Len(combined))

\* line 138: customSearch has returned or thrown
RemoteDone(p, outcome) ==
    /\ p \in 1..Len(proc)
    /\ proc[p].pc = "remote"
    /\ \E remote \in {customSearch(outcome)} :
           IF remote.threw
           THEN /\ proc' = [proc EXCEPT ![p] = Respond(@, ErrorResponse(500))]
                /\ UNCHANGED <<cache, stats>>
           ELSE IF remote.success /\ Len(remote.results) > 0
           THEN Advance(p, [proc[p] EXCEPT !.pending = remote.results])
           ELSE WriteResult(p, proc[p], Transform(proc[p].local.services),
                            proc[p].local.total)
    /\ UNCHANGED <<store, users>>
    /\ RaceIdle

\* lines 161-172: findOne has returned for the result at the head of the list.
\* A save without a category id is rejected by validation and the result is
\* left out; any other save is issued and awaited
FindDone(p) ==
    /\ p \in 1..Len(proc)
    /\ proc[p].pc = "find"
    /\ \E found \in {FindExisting(store, Head(proc[p].pending), proc[p].req.category)} :
           IF found # 0
           THEN Advance(p, [proc[p] EXCEPT !.newServices = Append(@, store[found]),
                                           !.pending = Tail(@)])
           ELSE IF ~Truthy(proc[p].req.category)
           THEN Advance(p, [proc[p] EXCEPT !.pending = Tail(@)])
           ELSE /\ proc' = [proc EXCEPT ![p].pc = "save"]
                /\ UNCHANGED <<cache, stats>>
    /\ UNCHANGED <<store, users>>
    /\ RaceIdle

\* lines 194-195: the save has inserted the new document
SaveDone(p) ==
    /\ p \in 1..Len(proc)
    /\ proc[p].pc = "save"
    /\ \E doc \in {NewService(Len(store) + 1, Head(proc[p].pending),
                               proc[p].req.category)} :
           /\ store' = Append(store, doc)
           /\ Advance(p, [proc[p] EXCEPT !.newServices = Append(@, doc),
                                         !.pending = Tail(@),
                                         !.inserted = @ + 1])
    /\ UNCHANGED users
    /\ RaceIdle

\* lines 114-115: findById has returned the user of the caller; without the
\* user the response follows at once
HistoryLoaded(p) ==
    /\ p \in 1..Len(proc)
    /\ proc[p].pc = "finish"
    /\ UpdatesHistory(proc[p].caller)
    /\ proc' = IF proc[p].caller.id \in DOMAIN users
               THEN [proc EXCEPT ![p].pc = "saveUser",
                                 ![p].loaded = users[proc[p].caller.id]]
               ELSE [proc EXCEPT ![p] = Respond(@, SuccessOf(@))]
    /\ UNCHANGED <<cache, stats, store, users>>
    /\ RaceIdle

\* user.save() writes the whole recentSearches array of the loaded document.
\* When another request has saved the user since the load, the array either
\* replaces what that request wrote or the save is rejected as a version
\* conflict, which the catch of line 119 logs
SaveOutcomes(stored, loaded, updated) ==
    IF stored = loaded THEN {updated} ELSE {updated, stored}

\* lines 116-130: addRecentSearch, the save has settled, and the response; a
\* caller without an id gets the response right after the set
Finish(p) ==
    /\ p \in 1..Len(proc)
    /\ \/ proc[p].pc = "saveUser"
       \/ proc[p].pc = "finish" /\ ~UpdatesHistory(proc[p].caller)
    /\ IF proc[p].pc = "saveUser"
       THEN \E now \in {Cardinality({q \in 1..Len(proc) : proc[q].pc = "done"}) + 1} :
            \E saved \in SaveOutcomes(users[proc[p].caller.id], proc[p].loaded,
                                      addRecentSearch(proc[p].loaded,
                                                      proc[p].req.query, now)) :
                users' = [users EXCEPT ![proc[p].caller.id] = saved]
       ELSE UNCHANGED users
    /\ proc' = [proc EXCEPT ![p] = Respond(@, SuccessOf(@))]
    /\ UNCHANGED <<cache, stats, store>>
    /\ RaceIdle

NextRace ==
    \/ \E caller \in Callers : \E query \in RaceQueries : Begin(caller, query)
    \/ \E p \in 1..MaxConcurrent : QueryDone(p)
    \/ \E p \in 1..MaxConcurrent : \E outcome \in RaceOutcomes : RemoteDone(p, outcome)
    \/ \E p \in 1..MaxConcurrent : FindDone(p)
    \/ \E p \in 1..MaxConcurrent : SaveDone(p)
    \/ \E p \in 1..MaxConcurrent : HistoryLoaded(p)
    \/ \E p \in 1..MaxConcurrent : Finish(p)

\* one public document, or enough of them to pass the gate; with or without
\* a premium one
InitRace ==
    /\ Init
    /\ \E nPublic \in {1, MinPageResults} : \E nPremium \in {0, MaxPremium} :
           store = InitialStore(nPublic, nPremium)
    /\ client = [page |-> 1, limit |-> MinPageResults, category |-> JsStr(CatId)]

SpecRace == InitRace /\ [][NextRace]_vars

(***************************************************************************)
(* Specification SpecLive: the requests of SpecRace, valid or not, whose   *)
(* store query and history update may also reject.  Mongoose gives up an   *)
(* operation after socketTimeoutMS and axios a call after its timeout, so  *)
(* every awaited operation settles; the event loop then runs the handler   *)
(* on: each step other than the arrival of a request is weakly fair.       *)
(***************************************************************************)
\* a body that schemas.search rejects
InvalidRequest == [RaceRequest EXCEPT !.query = <<"a">>]

\* the requests in progress
InFlight == {p \in 1..Len(proc) : proc[p].pc # "done"}

\* at most two requests are in progress at once, however many are received
MaxInFlight == Min(2, MaxConcurrent)

Receive(caller, req) ==
    /\ Len(proc) < MaxConcurrent
    /\ Cardinality(InFlight) < MaxInFlight
    /\ StartRequest(caller, req)
    /\ UNCHANGED <<cache, store, users>>
    /\ RaceIdle

\* lines 75-83 reject: the catch of lines 322-329 answers
QueryFailed(p) ==
    /\ p \in 1..Len(proc)
    /\ proc[p].pc = "query"
    /\ proc' = [proc EXCEPT ![p] = Respond(@, ErrorResponse(500))]
    /\ UNCHANGED <<cache, stats, store, users>>
    /\ RaceIdle

\* findById or save of the history rejects: the catch of line 119 logs it
HistoryFailed(p) ==
    /\ p \in 1..Len(proc)
    /\ \/ proc[p].pc = "saveUser"
       \/ proc[p].pc = "finish" /\ UpdatesHistory(proc[p].caller)
    /\ proc' = [proc EXCEPT ![p] = Respond(@, SuccessOf(@))]
    /\ UNCHANGED <<cache, stats, store, users>>
    /\ RaceIdle

Settle ==
    \/ \E p \in 1..MaxConcurrent : QueryDone(p)
    \/ \E p \in 1..MaxConcurrent : QueryFailed(p)
    \/ \E p \in 1..MaxConcurrent : \E outcome \in RaceOutcomes : RemoteDone(p, outcome)
    \/ \E p \in 1..MaxConcurrent : FindDone(p)
    \/ \E p \in 1..MaxConcurrent : SaveDone(p)
    \/ \E p \in 1..MaxConcurrent : HistoryLoaded(p)
    \/ \E p \in 1..MaxConcurrent : HistoryFailed(p)
    \/ \E p \in 1..MaxConcurrent : Finish(p)

\* the requests come from the verified user, whose history search updates
NextLive ==
    \/ \E caller \in {c \in Callers : c.verified} :
           \E req \in {RaceRequest, InvalidRequest} : Receive(caller, req)
    \/ Settle

InitLive ==
    /\ InitRace
    /\ \A i \in 1..Len(store) : ~store[i].premiumOnly

SpecLive == InitLive /\ [][NextLive]_vars /\ WF_vars(Settle)

(***************************************************************************)
(* Specification SpecApi: logical calls through apiClient (config/pythonApi) *)
(* and its response interceptor, made by customSearch and checkApiHealth.  *)
(* An attempt is answered by the environment with one of AttemptOutcomes.  *)
(***************************************************************************)
\* pythonApiConfig.maxRetries
MaxRetries == 3

\* answers axios resolves: status 200, another 2xx status
ResolvedOutcomes == {"ok200", "ok204"}
\* failures without a response: timeout (code ECONNABORTED), connection failure
TransportOutcomes == {"timeout", "network"}
\* an answer with an error status: axios rejects with error.response set
AttemptOutcomes == ResolvedOutcomes \cup TransportOutcomes \cup {"appError"}

\* the error object axios rejects with
ErrorOf(outcome) ==
    [code |-> IF outcome = "timeout" THEN "ECONNABORTED"
              ELSE IF outcome = "network" THEN "ECONNREFUSED"
              ELSE "ERR_BAD_RESPONSE",
     hasResponse |-> outcome = "appError"]

\* value < n for a number n: undefined converts to NaN, which compares false
JsLessThan(v, n) ==
    IF v.t = "number" THEN v.n < n
    ELSE IF v.t = "null" THEN 0 < n
    ELSE FALSE

\* a variant that retries every failure without a response, with no limit
ShouldRetry_Unbounded(error, config) ==
    error.code = "ECONNABORTED" \/ ~error.hasResponse

\* a variant that retries any failure once
ShouldRetry_AnyError(error, config) == ~config.retry

\* the condition of the interceptor (lines 133-138); originalRequest is the
\* config of the request, which axios always attaches to the error
ShouldRetry(error, config) ==
    /\ (error.code = "ECONNABORTED" \/ ~error.hasResponse)
    /\ ~config.retry
    /\ JsLessThan(config.retryCount, MaxRetries)

\* Math.pow(2, n)
RECURSIVE Pow2(_)
Pow2(n) == IF n = 0 THEN 1 ELSE 2 * Pow2(n - 1)

\* a variant that reports every answer as healthy
checkApiHealth_AnyAnswer(settled, outcome) ==
    [raised |-> FALSE, value |-> settled = "resolved"]

\* checkApiHealth: true for an answer with status 200, false for any other
\* answer and for a rejected request
checkApiHealth(settled, outcome) ==
    [raised |-> FALSE, value |-> settled = "resolved" /\ outcome = "ok200"]

\* isHealthy: the result of checkApiHealth, false if it throws
isHealthy(settled, outcome) ==
    LET h == checkApiHealth(settled, outcome)
    IN IF h.raised THEN FALSE ELSE h.value

\* the callers of apiClient the model follows
CallKinds == {"search", "health"}

InitApi ==
    /\ api = IdleApi
    /\ cache = IdleCache
    /\ stats = IdleStats
    /\ cacheOp = IdleCacheOp
    /\ keyIn = [q1 |-> <<>>, q2 |-> <<>>, f1 |-> <<>>, f2 |-> <<>>]
    /\ keyOut = [done |-> FALSE, a |-> <<>>, b |-> <<>>]
    /\ store = <<>>
    /\ resp = IdleResp
    /\ trace = IdleTrace
    /\ client = IdleClient
    /\ nReq = 0
    /\ history = IdleHistory
    /\ admin = IdleAdmin
    /\ users = IdleUsers
    /\ proc = IdleProc

ApiIdle ==
    UNCHANGED <<keyIn, keyOut, cache, stats, cacheOp, store, resp, trace, client, nReq,
                history, admin, users, proc>>

\* customSearch or checkApiHealth issues its request: the first attempt
ApiCall(kind) ==
    /\ api.phase = "idle"
    /\ api.calls < MaxCalls
    /\ api' = [IdleApi EXCEPT !.phase = "inflight", !.kind = kind, !.attempts = 1,
                              !.calls = api.calls, !.last = api.last]
    /\ ApiIdle

\* the attempt in flight is answered and the response interceptor runs: it
\* passes an answer on, re-issues the request after the delay, or rejects
ApiRespond(outcome) ==
    /\ api.phase = "inflight"
    /\ \E log \in {Append(api.log, outcome)} :
           IF outcome \in ResolvedOutcomes
           THEN api' = [api EXCEPT !.phase = "settled", !.log = log,
                                   !.settled = "resolved"]
           ELSE IF ShouldRetry(ErrorOf(outcome), api.config)
           THEN /\ api.attempts < MaxAttempts
                /\ \E count \in {NumOr(api.config.retryCount, 0) + 1} :
                       api' = [api EXCEPT !.log = log,
                                          !.config = [retry |-> TRUE,
                                                      retryCount |-> JsNum(count)],
                                          !.delayMs = Pow2(count) * 1000,
                                          !.attempts = @ + 1]
           ELSE api' = [api EXCEPT !.phase = "settled", !.log = log,
                                   !.settled = "rejected"]
    /\ ApiIdle

\* the caller resumes: customSearch returns or rethrows, isHealthy returns
ApiComplete ==
    /\ api.phase = "settled"
    /\ \E outcome \in {api.log[Len(api.log)]} :
       \E result \in
           {IF api.kind = "search"
            THEN [raised |-> customSearch(
                                [kind |-> IF api.settled = "resolved" /\ outcome = "ok200"
                                          THEN "ok" ELSE "fail",
                                 results |-> <<>>]).threw,
                  value |-> FALSE]
            ELSE [raised |-> FALSE, value |-> isHealthy(api.settled, outcome)]} :
           api' = [IdleApi EXCEPT !.calls = api.calls + 1,
                                  !.last = [kind |-> api.kind, log |-> api.log,
                                            settled |-> api.settled,
                                            result |-> result]]
    /\ ApiIdle

NextApi ==
    \/ \E kind \in CallKinds : ApiCall(kind)
    \/ \E outcome \in AttemptOutcomes : ApiRespond(outcome)
    \/ ApiComplete

SpecApi == InitApi /\ [][NextApi]_vars

(***************************************************************************)
(* Specification SpecHistory: the recent searches of one user, written by  *)
(* addRecentSearch (as search calls it) and by clearRecentSearches.        *)
(***************************************************************************)
\* getUserKey(userId, 'recent-searches') of the model's user
RecentSearchesKey ==
    PrefUser \o <<"7",":","r","e","c","e","n","t","-","s","e","a","r","c","h","e","s">>

HistoryQueries == {<<"a", "b">>, <<"a", "u">>}

InitHistory ==
    /\ history = IdleHistory
    /\ \E keys \in SUBSET {RecentSearchesKey} :
           cache = [k \in keys |-> [value |-> JsNum(1), ttl |-> TTLUser]]
    /\ stats = IdleStats
    /\ cacheOp = IdleCacheOp
    /\ keyIn = [q1 |-> <<>>, q2 |-> <<>>, f1 |-> <<>>, f2 |-> <<>>]
    /\ keyOut = [done |-> FALSE, a |-> <<>>, b |-> <<>>]
    /\ store = <<>>
    /\ resp = IdleResp
    /\ trace = IdleTrace
    /\ client = IdleClient
    /\ nReq = 0
    /\ api = IdleApi
    /\ admin = IdleAdmin
    /\ users = IdleUsers
    /\ proc = IdleProc

\* user.addRecentSearch(query); user.save() as search does for its caller
AddRecentSearch(query) ==
    /\ history.n < MaxHistoryOps
    /\ history' = [recentSearches |->
                       addRecentSearch(history.recentSearches, query, history.clock + 1),
                   clock |-> history.clock + 1,
                   n |-> history.n + 1, op |-> "add", arg |-> query]
    /\ UNCHANGED <<keyIn, keyOut, cache, stats, cacheOp, store, resp, trace, client,
                   nReq, api, admin, users, proc>>

\* clearRecentSearches: the history becomes empty and the cached copy is deleted
ClearRecentSearches ==
    /\ history.n < MaxHistoryOps
    /\ history' = [history EXCEPT !.recentSearches = <<>>,
                                  !.n = @ + 1, !.op = "clear", !.arg = <<>>]
    /\ cache' = cacheDelete(cache, RecentSearchesKey).cache
    /\ UNCHANGED <<keyIn, keyOut, stats, cacheOp, store, resp, trace, client,
                   nReq, api, admin, users, proc>>

NextHistory ==
    \/ \E query \in HistoryQueries : AddRecentSearch(query)
    \/ ClearRecentSearches

SpecHistory == InitHistory /\ [][NextHistory]_vars

(***************************************************************************)
(* Specification SpecAdmin: the category and service handlers              *)
(* (categoryController.js, serviceController.js) over the cache.  The      *)
(* collections are functions from the ids present: a service to its        *)
(* category id, a category to its name.                                    *)
(***************************************************************************)
ServiceIds == {<<"3">>, <<"3", "1">>}
CategoryIds == {<<"7">>, <<"7", "1">>}
CategoryNames == {"n1", "n2"}
\* an id that isValidMongoId rejects
InvalidId == <<"z">>

\* isValidMongoId on the ids of the model: the strings of digits
isValidMongoId(id) == id # <<>> /\ \A i \in 1..Len(id) : id[i] \in {Digits[j] : j \in 1..10}

\* getServicesKey(serviceId, categoryId, page, limit); <<>> stands for null
getServicesKey(serviceId, categoryId, page, limit) ==
    IF serviceId # <<>> THEN PrefServicesId \o serviceId
    ELSE IF categoryId # <<>>
    THEN PrefServicesCategory \o categoryId \o <<":","p","a","g","e",":">> \o NumStr(page)
             \o <<":","l","i","m","i","t",":">> \o NumStr(limit)
    ELSE PrefServices \o <<"a","l","l",":","p","a","g","e",":">> \o NumStr(page)
             \o <<":","l","i","m","i","t",":">> \o NumStr(limit)

\* getCategoryKey(categoryId)
getCategoryKey(categoryId) == PrefCategories \o categoryId

CategoryAll == <<"a","l","l">>

\* `services:featured:limit:${limit}`
FeaturedKey(limit) == PrefServicesFeatured \o <<"l","i","m","i","t",":">> \o NumStr(limit)

\* `services:category:${categoryId}:*`
ServicesCategoryPattern(categoryId) == PrefServicesCategory \o categoryId \o <<":","*">>

\* invalidatePattern applied to each pattern in turn
RECURSIVE InvalidatePatterns(_, _)
InvalidatePatterns(c, patterns) ==
    IF patterns = <<>> THEN c
    ELSE InvalidatePatterns(invalidatePattern(c, Head(patterns)).cache, Tail(patterns))

\* a variant that leaves the featured lists cached
ServiceInvalidation_NoFeatured(c, id, cats) ==
    InvalidatePatterns(IF id = <<>> THEN c ELSE cacheDelete(c, getServicesKey(id, <<>>, 1, 20)).cache,
                       [i \in 1..Len(cats) |-> ServicesCategoryPattern(cats[i])])

\* the invalidation of createService (240-241, id = <<>>), updateService
\* (302-307) and deleteService (346-348): the key of the service, the lists of
\* each category in cats, the featured lists
ServiceInvalidation(c, id, cats) ==
    InvalidatePatterns(IF id = <<>> THEN c ELSE cacheDelete(c, getServicesKey(id, <<>>, 1, 20)).cache,
                       [i \in 1..Len(cats) |-> ServicesCategoryPattern(cats[i])]
                           \o <<PrefServicesFeatured \o <<"*">>>>)

\* a variant that leaves the service lists of the category cached
CategoryInvalidation_CategoriesOnly(c, id) ==
    InvalidatePatterns(c, <<PrefCategories \o <<"*">>>>)

\* the invalidation of createCategory (108, id = <<>>), updateCategory
\* (168-169) and deleteCategory (209-210)
CategoryInvalidation(c, id) ==
    InvalidatePatterns(c, <<PrefCategories \o <<"*">>>>
                              \o (IF id = <<>> THEN <<>> ELSE <<ServicesCategoryPattern(id)>>))

\* the keys the read handlers can have filled for the collections
KeysFor(services, categories) ==
    {getServicesKey(id, <<>>, 1, 20) : id \in DOMAIN services}
    \cup {getServicesKey(<<>>, id, 1, 10) : id \in DOMAIN categories}
    \cup {getCategoryKey(id) : id \in DOMAIN categories}
    \cup {getCategoryKey(CategoryAll), FeaturedKey(5)}

InitAdmin ==
    /\ \E cats \in {{<<"7">>}, CategoryIds} :
       \E second \in {<<>>} \cup cats :
       \E filled \in BOOLEAN :
       \E categories \in {[id \in cats |-> IF id = <<"7">> THEN "n1" ELSE "n2"]} :
       \E services \in {[id \in {<<"3">>} \cup (IF second = <<>> THEN {} ELSE {<<"3", "1">>})
                            |-> IF id = <<"3">> THEN <<"7">> ELSE second]} :
           /\ admin = [IdleAdmin EXCEPT !.services = services, !.categories = categories]
           /\ cache = [k \in (IF filled THEN KeysFor(services, categories) ELSE {})
                           |-> [value |-> JsNum(1), ttl |-> getCacheTTLForKey(k)]]
    /\ stats = IdleStats
    /\ cacheOp = IdleCacheOp
    /\ keyIn = [q1 |-> <<>>, q2 |-> <<>>, f1 |-> <<>>, f2 |-> <<>>]
    /\ keyOut = [done |-> FALSE, a |-> <<>>, b |-> <<>>]
    /\ store = <<>>
    /\ resp = IdleResp
    /\ trace = IdleTrace
    /\ client = IdleClient
    /\ nReq = 0
    /\ api = IdleApi
    /\ history = IdleHistory
    /\ users = IdleUsers
    /\ proc = IdleProc

AdminIdle ==
    UNCHANGED <<keyIn, keyOut, cacheOp, store, resp, trace, client, nReq, api, history,
                users, proc>>

\* a handler that answers without a write to the collections or the cache
AdminRejected(op, id, status) ==
    /\ admin' = [admin EXCEPT !.op = op, !.id = id, !.cat = <<>>, !.status = status,
                              !.removed = 0, !.n = @ + 1]
    /\ UNCHANGED <<cache, stats>>

\* a handler that has written the collections and now holds the cache c
AdminWritten(op, id, cat, status, services, categories, c) ==
    /\ cache' = c
    /\ admin' = [services |-> services, categories |-> categories,
                 op |-> op, id |-> id, cat |-> cat, status |-> status,
                 removed |-> Cardinality(DOMAIN cache \ DOMAIN c), n |-> admin.n + 1]
    /\ UNCHANGED stats

\* a read handler: the cached value on a hit, else the value read from the
\* collections is cached if the entity exists (404 otherwise)
ReadThrough(op, id, key, exists) ==
    /\ \E looked \in {cacheGet(cache, stats, key)} :
           IF looked.hit
           THEN /\ stats' = looked.stats
                /\ UNCHANGED cache
                /\ admin' = [admin EXCEPT !.op = op, !.id = id, !.cat = <<>>,
                                          !.status = 200, !.removed = 0, !.n = @ + 1]
           ELSE IF ~exists
           THEN /\ stats' = looked.stats
                /\ UNCHANGED cache
                /\ admin' = [admin EXCEPT !.op = op, !.id = id, !.cat = <<>>,
                                          !.status = 404, !.removed = 0, !.n = @ + 1]
           ELSE \E wrote \in {cacheSet(cache, looked.stats, key, JsNum(2), 0)} :
                /\ stats' = wrote.stats
                /\ cache' = wrote.cache
                /\ admin' = [admin EXCEPT !.op = op, !.id = id, !.cat = <<>>,
                                          !.status = 200, !.removed = 0, !.n = @ + 1]
    /\ AdminIdle

\* getServiceById
GetServiceById(id) ==
    /\ admin.n < MaxAdminOps
    /\ ReadThrough("getServiceById", id, getServicesKey(id, <<>>, 1, 20),
                   id \in DOMAIN admin.services)

\* getServicesByCategory with the default page and limit; the category is
\* looked up before the cache
GetServicesByCategory(id) ==
    /\ admin.n < MaxAdminOps
    /\ IF id \in DOMAIN admin.categories
       THEN ReadThrough("getServicesByCategory", id, getServicesKey(<<>>, id, 1, 10), TRUE)
       ELSE /\ AdminRejected("getServicesByCategory", id, 404)
            /\ AdminIdle

\* getFeaturedServices with the default limit
GetFeaturedServices ==
    /\ admin.n < MaxAdminOps
    /\ ReadThrough("getFeaturedServices", <<>>, FeaturedKey(5), TRUE)

\* getAllCategories
GetAllCategories ==
    /\ admin.n < MaxAdminOps
    /\ ReadThrough("getAllCategories", <<>>, getCategoryKey(CategoryAll), TRUE)

\* getCategoryById
GetCategoryById(id) ==
    /\ admin.n < MaxAdminOps
    /\ ReadThrough("getCategoryById", id, getCategoryKey(id),
                   id \in DOMAIN admin.categories)

\* createService: the new service gets the id the store generates
CreateService(newId, category) ==
    /\ admin.n < MaxAdminOps
    /\ newId \notin DOMAIN admin.services
    /\ IF ~isValidMongoId(category) \/ category \notin DOMAIN admin.categories
       THEN AdminRejected("createService", <<>>, 400)
       ELSE AdminWritten("createService", newId, category, 201,
                [id \in DOMAIN admin.services \cup {newId} |->
                    IF id = newId THEN category ELSE admin.services[id]],
                admin.categories,
                ServiceInvalidation(cache, <<>>, <<category>>))
    /\ AdminIdle

\* updateService; category is the category of the request body
UpdateService(id, category) ==
    /\ admin.n < MaxAdminOps
    /\ IF ~isValidMongoId(id) THEN AdminRejected("updateService", id, 400)
       ELSE IF id \notin DOMAIN admin.services
       THEN AdminRejected("updateService", id, 404)
       ELSE IF category # admin.services[id]
               /\ (~isValidMongoId(category) \/ category \notin DOMAIN admin.categories)
       THEN AdminRejected("updateService", id, 400)
       ELSE AdminWritten("updateService", id, admin.services[id], 200,
                [admin.services EXCEPT ![id] = category],
                admin.categories,
                ServiceInvalidation(cache, id,
                    IF category # admin.services[id]
                    THEN <<admin.services[id], category>>
                    ELSE <<admin.services[id]>>))
    /\ AdminIdle

\* deleteService
DeleteService(id) ==
    /\ admin.n < MaxAdminOps
    /\ IF ~isValidMongoId(id) THEN AdminRejected("deleteService", id, 400)
       ELSE IF id \notin DOMAIN admin.services
       THEN AdminRejected("deleteService", id, 404)
       ELSE AdminWritten("deleteService", id, admin.services[id], 200,
                [i \in DOMAIN admin.services \ {id} |-> admin.services[i]],
                admin.categories,
                ServiceInvalidation(cache, id, <<admin.services[id]>>))
    /\ AdminIdle

\* createCategory: the new category gets the id the store generates
CreateCategory(newId, name) ==
    /\ admin.n < MaxAdminOps
    /\ newId \notin DOMAIN admin.categories
    /\ IF \E id \in DOMAIN admin.categories : admin.categories[id] = name
       THEN AdminRejected("createCategory", <<>>, 409)
       ELSE AdminWritten("createCategory", newId, <<>>, 201,
                admin.services,
                [id \in DOMAIN admin.categories \cup {newId} |->
                    IF id = newId THEN name ELSE admin.categories[id]],
                CategoryInvalidation(cache, <<>>))
    /\ AdminIdle

\* updateCategory
UpdateCategory(id, name) ==
    /\ admin.n < MaxAdminOps
    /\ IF ~isValidMongoId(id) THEN AdminRejected("updateCategory", id, 400)
       ELSE IF id \notin DOMAIN admin.categories
       THEN AdminRejected("updateCategory", id, 404)
       ELSE IF name # admin.categories[id]
               /\ \E other \in DOMAIN admin.categories \ {id} :
                      admin.categories[other] = name
       THEN AdminRejected("updateCategory", id, 409)
       ELSE AdminWritten("updateCategory", id, <<>>, 200,
                admin.services,
                [admin.categories EXCEPT ![id] = name],
                CategoryInvalidation(cache, id))
    /\ AdminIdle

\* deleteCategory
DeleteCategory(id) ==
    /\ admin.n < MaxAdminOps
    /\ IF ~isValidMongoId(id) THEN AdminRejected("deleteCategory", id, 400)
       ELSE IF \E s \in DOMAIN admin.services : admin.services[s] = id
       THEN AdminRejected("deleteCategory", id, 400)
       ELSE IF id \notin DOMAIN admin.categories
       THEN AdminRejected("deleteCategory", id, 404)
       ELSE AdminWritten("deleteCategory", id, <<>>, 200,
                admin.services,
                [i \in DOMAIN admin.categories \ {id} |-> admin.categories[i]],
                CategoryInvalidation(cache, id))
    /\ AdminIdle

NextAdmin ==
    \/ \E id \in ServiceIds : GetServiceById(id)
    \/ \E id \in CategoryIds : GetServicesByCategory(id)
    \/ GetFeaturedServices
    \/ GetAllCategories
    \/ \E id \in CategoryIds : GetCategoryById(id)
    \/ \E newId \in ServiceIds : \E category \in CategoryIds \cup {InvalidId} :
           CreateService(newId, category)
    \/ \E id \in ServiceIds \cup {InvalidId} : \E category \in CategoryIds :
           UpdateService(id, category)
    \/ \E id \in ServiceIds \cup {InvalidId} : DeleteService(id)
    \/ \E newId \in CategoryIds : \E name \in CategoryNames : CreateCategory(newId, name)
    \/ \E id \in CategoryIds \cup {InvalidId} : \E name \in CategoryNames :
           UpdateCategory(id, name)
    \/ \E id \in CategoryIds \cup {InvalidId} : DeleteCategory(id)

SpecAdmin == InitAdmin /\ [][NextAdmin]_vars

(***************************************************************************)
(* Specification SpecFrame: the write handlers of categories, services and *)
(* payments, the expiry of an entry and clear(), over a cache that holds   *)
(* search entries next to the entries of the other namespaces.             *)
(***************************************************************************)
PayerIds == {<<"9">>}

\* query texts a client may have searched: schemas.search takes any string of
\* 2 to 100 characters
FrameQueries ==
    {<<"a","b">>, <<"c","a","t","e","g","o","r","i","e","s",":">>,
     <<"s","e","r","v","i","c","e","s",":","f","e","a","t","u","r","e","d",":">>, <<"u","s","e","r",":","9",":">>}

FrameSearchKey(query) == SearchCacheKey([PlainRequest EXCEPT !.query = query])

\* `user:${userId}:${type}`
getUserKey(userId, type) == PrefUser \o userId \o <<":">> \o type

\* `user:${req.user.id}:*`
UserPattern(userId) == PrefUser \o userId \o <<":","*">>

\* what World App and the Transaction collection hold for the confirmed
\* reference: no transaction, a transaction of another user, one completed
\* before, or one whose remote status is mined, pending or failed
PaymentOutcomes == {"notFound", "forbidden", "already", "mined", "pending", "failed"}

InitFrame ==
    /\ \E searched \in SUBSET FrameQueries :
       \E services \in {[id \in ServiceIds |-> IF id = <<"3">> THEN <<"7">> ELSE <<"7","1">>]} :
       \E categories \in {[id \in CategoryIds |-> IF id = <<"7">> THEN "n1" ELSE "n2"]} :
           /\ searched # {}
           /\ admin = [IdleAdmin EXCEPT !.services = services, !.categories = categories]
           /\ cache = [k \in KeysFor(services, categories)
                               \cup {FrameSearchKey(q) : q \in searched}
                               \cup {getUserKey(u, <<"p","r","o","f","i","l","e">>) :
                                         u \in PayerIds}
                           |-> [value |-> JsNum(1), ttl |-> getCacheTTLForKey(k)]]
    /\ users = [u \in PayerIds |-> [paidServices |-> {}]]
    /\ stats = IdleStats
    /\ cacheOp = IdleCacheOp
    /\ keyIn = [q1 |-> <<>>, q2 |-> <<>>, f1 |-> <<>>, f2 |-> <<>>]
    /\ keyOut = [done |-> FALSE, a |-> <<>>, b |-> <<>>]
    /\ store = <<>>
    /\ resp = IdleResp
    /\ trace = IdleTrace
    /\ client = IdleClient
    /\ nReq = 0
    /\ api = IdleApi
    /\ history = IdleHistory
    /\ proc = IdleProc

\* confirmPayment of an authenticated user for a transaction of service id:
\* only a transaction found mined grants the access (paidServices) and
\* invalidates the user's entries (lines 182-201)
ConfirmPayment(userId, id, outcome) ==
    /\ admin.n < MaxAdminOps
    /\ IF outcome = "notFound" THEN AdminRejected("confirmPayment", id, 404)
       ELSE IF outcome = "forbidden" THEN AdminRejected("confirmPayment", id, 403)
       ELSE IF outcome = "already" THEN AdminRejected("confirmPayment", id, 200)
       ELSE IF outcome = "failed" THEN AdminRejected("confirmPayment", id, 400)
       ELSE IF id \notin DOMAIN admin.services
       THEN AdminRejected("confirmPayment", id, 404)
       ELSE IF outcome = "pending" THEN AdminRejected("confirmPayment", id, 200)
       ELSE AdminWritten("confirmPayment", id, <<>>, 200, admin.services,
                         admin.categories,
                         invalidatePattern(cache, UserPattern(userId)).cache)
    /\ users' = IF outcome = "mined" /\ id \in DOMAIN admin.services
                THEN [users EXCEPT ![userId].paidServices = @ \cup {id}]
                ELSE users
    /\ UNCHANGED <<keyIn, keyOut, cacheOp, store, resp, trace, client, nReq, api,
                   history, proc>>

\* the lifetime of an entry has passed
ExpireEntry(key) ==
    /\ admin.n < MaxAdminOps
    /\ key \in DOMAIN cache
    /\ AdminWritten("expired", key, <<>>, 0, admin.services, admin.categories,
                    [k \in DOMAIN cache \ {key} |-> cache[k]])
    /\ AdminIdle

\* clear()
ClearCache ==
    /\ admin.n < MaxAdminOps
    /\ AdminWritten("clear", <<>>, <<>>, 0, admin.services, admin.categories,
                    cacheClear(cache).cache)
    /\ AdminIdle

NextFrame ==
    \/ \E newId \in ServiceIds \cup {<<"3","2">>} : \E category \in CategoryIds :
           CreateService(newId, category)
    \/ \E id \in ServiceIds : \E category \in CategoryIds : UpdateService(id, category)
    \/ \E id \in ServiceIds : DeleteService(id)
    \/ \E newId \in CategoryIds \cup {<<"7","2">>} : \E name \in CategoryNames \cup {"n3"} :
           CreateCategory(newId, name)
    \/ \E id \in CategoryIds : \E name \in CategoryNames : UpdateCategory(id, name)
    \/ \E id \in CategoryIds \cup {<<"7","2">>} : DeleteCategory(id)
    \/ \E userId \in PayerIds : \E id \in ServiceIds : \E outcome \in PaymentOutcomes :
           ConfirmPayment(userId, id, outcome)
    \/ \E query \in FrameQueries : ExpireEntry(FrameSearchKey(query))
    \/ ClearCache

SpecFrame == InitFrame /\ [][NextFrame]_vars

(***************************************************************************)
(* Specification SpecService: getServiceById and updateService of          *)
(* serviceController.js in progress at the same time, each running from    *)
(* one await to the next in one step.  The store holds a public and a      *)
(* premium service; users maps a user to the services it has paid for.     *)
(***************************************************************************)
ServiceDoc(i, premium) ==
    [id |-> i, title |-> <<"t">>, category |-> <<"7">>, contactInfo |-> "tel-local",
     premiumOnly |-> premium, viewCount |-> 0, updatedAt |-> 0]

ServiceKey(i) == getServicesKey(NumStr(i), <<>>, 1, 20)

NoService == ServiceDoc(0, FALSE)

\* the title an update writes
NewTitle == <<"t", "2">>

\* req.user && req.user.id && User.findOne({ _id, paidServices: id })
HasAccess(us, caller, i) ==
    /\ UpdatesHistory(caller)
    /\ caller.id \in DOMAIN us
    /\ i \in us[caller.id].paidServices

\* lines 142-156: toObject(), with the contact replaced unless the caller
\* has access
ServiceObject(doc, hasAccess) ==
    IF doc.premiumOnly /\ ~hasAccess
    THEN [doc EXCEPT !.contactInfo = ContactSentinel]
    ELSE doc

NewHandler(kind, caller, i) ==
    [kind |-> kind, pc |-> "find", caller |-> caller, id |-> i, doc |-> NoService,
     status |-> 0, data |-> NoService, after |-> <<>>]

Answer(rec, status, data) ==
    [rec EXCEPT !.pc = "done", !.status = status, !.data = data]

\* nReq is the clock of the store's writes
ServiceIdle ==
    UNCHANGED <<keyIn, keyOut, cacheOp, resp, trace, client, api, history, admin>>

\* lines 111-127: the key, get, and on a hit the cached object
GetBegin(caller, i) ==
    /\ Len(proc) < MaxConcurrent
    /\ \E looked \in {cacheGet(cache, stats, ServiceKey(i))} :
       \E rec \in {[NewHandler("get", caller, i) EXCEPT
                       !.after = IF i \in 1..Len(store) THEN store[i].title ELSE <<>>]} :
           /\ stats' = looked.stats
           /\ proc' = Append(proc, IF looked.hit
                                   THEN Answer(rec, 200, cache[ServiceKey(i)].value)
                                   ELSE rec)
    /\ UNCHANGED <<cache, store, users, nReq>>
    /\ ServiceIdle

\* lines 130-140: findById has returned; the view is counted and saved
GetFound(p) ==
    /\ p \in 1..Len(proc)
    /\ proc[p].kind = "get" /\ proc[p].pc = "find"
    /\ proc' = IF proc[p].id \in 1..Len(store)
               THEN [proc EXCEPT ![p].pc = "save",
                                 ![p].doc = [store[proc[p].id] EXCEPT
                                                !.viewCount = @ + 1]]
               ELSE [proc EXCEPT ![p] = Answer(@, 404, NoService)]
    /\ UNCHANGED <<cache, stats, store, users, nReq>>
    /\ ServiceIdle

\* cacheService.set(cacheKey, serviceObj) and the response (lines 158-164)
CacheService(p, obj) ==
    \E wrote \in {cacheSet(cache, stats, ServiceKey(proc[p].id), obj, 0)} :
        /\ cache' = wrote.cache
        /\ stats' = wrote.stats
        /\ proc' = [proc EXCEPT ![p] = Answer(@, 200, obj)]

\* cacheService.set(cacheKey, serviceObj) of the saved document
CacheSaved(p, saved) ==
    \E wrote \in {cacheSet(cache, stats, ServiceKey(proc[p].id),
                            ServiceObject(saved, FALSE), 0)} :
        /\ cache' = wrote.cache
        /\ stats' = wrote.stats
        /\ proc' = [proc EXCEPT ![p] = Answer([@ EXCEPT !.doc = saved], 200,
                                              ServiceObject(saved, FALSE))]

\* line 140: save has stored the counter, and the pre-save hook the date, of
\* the document read; a premium service asked for by a user awaits
\* User.findOne, any other is cached and returned
GetSaved(p) ==
    /\ p \in 1..Len(proc)
    /\ proc[p].kind = "get" /\ proc[p].pc = "save"
    /\ nReq' = nReq + 1
    /\ store' = [store EXCEPT ![proc[p].id].viewCount = proc[p].doc.viewCount,
                              ![proc[p].id].updatedAt = nReq + 1]
    /\ \E saved \in {[proc[p].doc EXCEPT !.updatedAt = nReq + 1]} :
           IF saved.premiumOnly /\ UpdatesHistory(proc[p].caller)
           THEN /\ proc' = [proc EXCEPT ![p].pc = "access", ![p].doc = saved]
                /\ UNCHANGED <<cache, stats>>
           ELSE CacheSaved(p, saved)
    /\ UNCHANGED users
    /\ ServiceIdle

\* lines 147-159: User.findOne has returned
GetAccess(p) ==
    /\ p \in 1..Len(proc)
    /\ proc[p].kind = "get" /\ proc[p].pc = "access"
    /\ CacheService(p, ServiceObject(proc[p].doc,
                                     HasAccess(users, proc[p].caller, proc[p].id)))
    /\ UNCHANGED <<store, users, nReq>>
    /\ ServiceIdle

\* updateService of a valid body without a category: up to findById
UpdateBegin(i) ==
    /\ Len(proc) < MaxConcurrent
    /\ proc' = Append(proc, NewHandler("update", NoCaller, i))
    /\ UNCHANGED <<cache, stats, store, users, nReq>>
    /\ ServiceIdle

\* lines 272-298: findById has returned; findByIdAndUpdate is issued
UpdateFound(p) ==
    /\ p \in 1..Len(proc)
    /\ proc[p].kind = "update" /\ proc[p].pc = "find"
    /\ proc' = IF proc[p].id \in 1..Len(store)
               THEN [proc EXCEPT ![p].pc = "write", ![p].doc = store[proc[p].id]]
               ELSE [proc EXCEPT ![p] = Answer(@, 404, NoService)]
    /\ UNCHANGED <<cache, stats, store, users, nReq>>
    /\ ServiceIdle

\* lines 291-314: findByIdAndUpdate has written the body and updatedAt, the
\* cache is invalidated and the updated service returned
UpdateWritten(p) ==
    /\ p \in 1..Len(proc)
    /\ proc[p].kind = "update" /\ proc[p].pc = "write"
    /\ nReq' = nReq + 1
    /\ \E updated \in {[store[proc[p].id] EXCEPT !.title = NewTitle,
                                                  !.updatedAt = nReq + 1]} :
           /\ store' = [store EXCEPT ![proc[p].id] = updated]
           /\ proc' = [proc EXCEPT ![p] = Answer(@, 200, updated)]
    /\ cache' = ServiceInvalidation(cache, NumStr(proc[p].id), <<proc[p].doc.category>>)
    /\ UNCHANGED <<stats, users>>
    /\ ServiceIdle

NextService ==
    \/ \E caller \in Callers : \E i \in 1..3 : GetBegin(caller, i)
    \/ \E p \in 1..MaxConcurrent : GetFound(p)
    \/ \E p \in 1..MaxConcurrent : GetSaved(p)
    \/ \E p \in 1..MaxConcurrent : GetAccess(p)
    \/ \E i \in 1..3 : UpdateBegin(i)
    \/ \E p \in 1..MaxConcurrent : UpdateFound(p)
    \/ \E p \in 1..MaxConcurrent : UpdateWritten(p)

InitService ==
    /\ store = <<ServiceDoc(1, FALSE), ServiceDoc(2, TRUE)>>
    /\ \E paid \in {{}, {2}} :
           users = [u \in {1, 2} |-> [paidServices |-> IF u = 2 THEN paid ELSE {}]]
    /\ cache = EmptyCache
    /\ stats = IdleStats
    /\ cacheOp = IdleCacheOp
    /\ keyIn = [q1 |-> <<>>, q2 |-> <<>>, f1 |-> <<>>, f2 |-> <<>>]
    /\ keyOut = [done |-> FALSE, a |-> <<>>, b |-> <<>>]
    /\ resp = IdleResp
    /\ trace = IdleTrace
    /\ client = IdleClient
    /\ nReq = 0
    /\ api = IdleApi
    /\ history = IdleHistory
    /\ admin = IdleAdmin
    /\ proc = IdleProc

SpecService == InitService /\ [][NextService]_vars

\* the ids of a sequence of documents, in order
IdsOf(docs) == [i \in 1..Len(docs) |-> docs[i].id]

\* the last request missed the cache and ran the local query
RanLocalQuery == trace.path \in {"local", "merged", "sparse", "error"}

\* C1: when the local results fail the sufficiency gate and the remote search
\* fails, the search still responds successfully with the local records and
\* the local total.
C1_RemoteFailureKeepsLocalResults ==
    (RanLocalQuery /\ trace.did.outcome = "fail") =>
        /\ resp.status = 200
        /\ IdsOf(resp.data) = IdsOf(trace.did.services)
        /\ resp.total = trace.did.total

\* C2: a response delivered to an absent or unverified caller carries the
\* sentinel in the contact field of every premiumOnly record it contains, on a
\* cache miss and on a hit of an entry written by any earlier caller.
C2_PremiumContactRedacted ==
    (resp.status = 200 /\ ~(trace.caller.present /\ trace.caller.verified)) =>
        \A i \in 1..Len(resp.data) :
            resp.data[i].premiumOnly => resp.data[i].contactInfo = ContactSentinel

\* an absent caller is served from the cache a premium document that only
\* the local query of a verified caller returns
C2_Witness ==
    /\ trace.path = "hit"
    /\ ~trace.caller.present
    /\ \E i \in 1..Len(resp.data) :
           /\ resp.data[i].premiumOnly
           /\ resp.data[i].contactInfo = ContactSentinel
           /\ store[resp.data[i].id].contactInfo = "tel-local"

\* C4: two consecutive searches with the same page and limit, with query texts
\* equal up to case and whitespace and filter values equal up to case, use the
\* same cache entry: the second is a hit and the hit counter grows by one.
C4_CaseVariantsShareCacheEntry ==
    [][(/\ nReq >= 1
        /\ resp.status = 200
        /\ trace'.req.page = trace.req.page
        /\ trace'.req.limit = trace.req.limit
        /\ trace'.req.category = trace.req.category
        /\ SameWords(trace'.req.query, trace.req.query)
        /\ ToLowerCase(trace'.req.location.s) = ToLowerCase(trace.req.location.s))
           => (trace'.path = "hit" /\ stats'.hits = stats.hits + 1)]_vars

\* C7: when the local page has at least 5 records or the local total is at
\* least 10, the remote search is not invoked and the response carries the
\* local page and the local total.
C7_SufficientLocalSkipsRemote ==
    (RanLocalQuery /\ (Len(trace.did.services) >= 5 \/ trace.did.total >= 10)) =>
        /\ ~trace.did.remoteCalled
        /\ resp.status = 200
        /\ IdsOf(resp.data) = IdsOf(trace.did.services)
        /\ resp.total = trace.did.total

\* a page shorter than 5 of a total of at least 10
C7_Witness ==
    /\ trace.path = "local"
    /\ Len(trace.did.services) < 5
    /\ trace.did.total >= 10
    /\ ~trace.did.remoteCalled
    /\ resp.total = trace.did.total

\* C8: zero local matches and a successful remote answer with zero records
\* give a successful response with an empty record list and total 0.
C8_NothingFoundIsEmptySuccess ==
    (/\ RanLocalQuery
     /\ trace.did.total = 0
     /\ trace.did.outcome = "ok"
     /\ trace.did.nResults = 0)
        => (resp.status = 200 /\ resp.data = <<>> /\ resp.total = 0)

C8_Witness ==
    /\ trace.path = "sparse"
    /\ trace.did.total = 0
    /\ trace.did.outcome = "ok"
    /\ trace.did.nResults = 0
    /\ resp.status = 200
    /\ resp.total = 0

\* C9: on the fallback path, when no remote candidate matches an existing
\* record and every candidate is inserted, the response total is the number of
\* local records plus the number of candidates, and no identity occurs twice
\* in the merged set.
C9_MergedTotalIsLocalPlusNew ==
    (/\ trace.path = "merged"
     /\ trace.did.matched = 0
     /\ trace.did.inserted = trace.did.nResults)
        => /\ resp.total = Len(trace.did.services) + trace.did.nResults
           /\ \A i, j \in 1..Len(trace.did.combined) :
                  i # j => trace.did.combined[i].id # trace.did.combined[j].id
           /\ \A i, j \in 1..Len(resp.data) :
                  i # j => resp.data[i].id # resp.data[j].id

\* 2 local records and 5 new candidates give 7
C9_Witness ==
    /\ trace.path = "merged"
    /\ Len(trace.did.services) = 2
    /\ trace.did.nResults = 5
    /\ trace.did.inserted = 5
    /\ resp.total = 7

\* C10: the records of a merged response are ordered by relevance descending,
\* and records of equal relevance by rating descending.
C10_MergedOrderRelevanceThenRating ==
    trace.path = "merged" =>
        \A i, j \in 1..Len(resp.data) :
            i < j =>
                /\ resp.data[i].relevance >= resp.data[j].relevance
                /\ resp.data[i].relevance = resp.data[j].relevance
                       => resp.data[i].rating >= resp.data[j].rating

\* C11: a valid request during which a cache operation (key construction,
\* get or set) throws is answered as on a cache miss: unless its remote call
\* failed, the response is a success, never an error response.
C11_CacheFaultNeverFailsRequest ==
    (trace.fault \in CacheFaults /\ trace.path # "invalid" /\ trace.did.outcome # "fail")
        => resp.status = 200

\* C12: set(key, null) and set(key, undefined) return false and leave the
\* cache contents and the counters as they were; a key that was absent before
\* the call is still reported absent by get afterwards.
C12_SetOfNullStoresNothing ==
    [][(cacheOp'.op = "set" /\ cacheOp'.n = cacheOp.n + 1
           /\ cacheOp'.value \in {JsNull, JsUndefined})
         => /\ cacheOp'.ret = 0
            /\ cache' = cache
            /\ stats' = stats
            /\ cacheOp'.arg \notin DOMAIN cache
                   => ~cacheGet(cache', stats', cacheOp'.arg).hit]_vars

C12_Witness ==
    /\ cacheOp.op = "set"
    /\ cacheOp.value = JsNull
    /\ cacheOp.ret = 0
    /\ cacheOp.arg \notin DOMAIN cache
    /\ cache # EmptyCache

\* C20: a successful set without an explicit lifetime stores the entry with
\* the lifetime of the key's namespace prefix (categories: 3600, services: 1800,
\* search: 300, user: 60, any other key 600); an explicit positive lifetime is
\* stored as given.
C20_LifetimeFollowsNamespace ==
    (cacheOp.op = "set" /\ cacheOp.ret = 1) =>
        cache[cacheOp.arg].ttl =
            IF cacheOp.ttl > 0 THEN cacheOp.ttl
            ELSE IF StartsWith(cacheOp.arg, <<"c","a","t","e","g","o","r","i","e","s",":">>)
                 THEN 3600
            ELSE IF StartsWith(cacheOp.arg, <<"s","e","r","v","i","c","e","s",":">>)
                 THEN 1800
            ELSE IF StartsWith(cacheOp.arg, <<"s","e","a","r","c","h",":">>) THEN 300
            ELSE IF StartsWith(cacheOp.arg, <<"u","s","e","r",":">>) THEN 60
            ELSE 600

C20_Witness ==
    /\ cacheOp.op = "set"
    /\ cacheOp.ret = 1
    /\ cacheOp.ttl = 0
    /\ cacheOp.arg = <<"u","s","e","r","s",":","7">>
    /\ cache[cacheOp.arg].ttl = 600
    /\ \E k \in DOMAIN cache : cache[k].ttl = ExplicitTTL

\* C13: a call reports a transport failure or a timeout to its caller only
\* after the maximum of 3 attempts has been made; with fewer attempts made
\* the request is attempted again.
C13_TransportFailureIsRetried ==
    (api.phase = "settled" /\ api.settled = "rejected"
        /\ api.log[Len(api.log)] \in TransportOutcomes)
      => api.attempts = 3

\* C14: a logical call makes at most 3 attempts, however its attempts fail.
C14_AtMostThreeAttempts ==
    api.attempts <= 3 /\ Len(api.log) <= 3 /\ Len(api.last.log) <= 3

C14_Witness ==
    /\ api.last.kind = "search"
    /\ api.last.log # <<>>
    /\ api.last.log[Len(api.last.log)] = "timeout"
    /\ api.last.result.raised

\* C15: an attempt answered with an error status is the last attempt of its
\* call: the call is rejected at once, and when the first attempt is answered
\* so, exactly one attempt is made and the caller gets the failure.
C15_ErrorStatusIsNotRetried ==
    /\ \A i \in 1..Len(api.log) :
           api.log[i] = "appError" =>
               /\ i = Len(api.log)
               /\ api.phase = "settled"
               /\ api.settled = "rejected"
               /\ i = 1 => api.attempts = 1
    /\ \A i \in 1..Len(api.last.log) :
           api.last.log[i] = "appError" =>
               /\ i = Len(api.last.log)
               /\ api.last.settled = "rejected"
               /\ api.last.kind = "search" => api.last.result.raised
               /\ api.last.kind = "health" => ~api.last.result.value

C15_Witness ==
    /\ api.last.kind = "search"
    /\ api.last.log = <<"appError">>
    /\ api.last.result.raised

\* C16: the health check returns a boolean and never raises: true exactly
\* when the health endpoint answered with status 200, false otherwise.
C16_HealthCheckIsBooleanAndTotal ==
    api.last.kind = "health" =>
        /\ ~api.last.result.raised
        /\ api.last.result.value \in BOOLEAN
        /\ api.last.result.value <=> api.last.log[Len(api.last.log)] = "ok200"

C16_Witness ==
    /\ api.last.kind = "health"
    /\ api.last.log[Len(api.last.log)] \in TransportOutcomes
    /\ api.last.result = [raised |-> FALSE, value |-> FALSE]
    /\ api.calls = MaxCalls

\* the number of entries of a history that hold the query
CountOf(recentSearches, query) ==
    Cardinality({i \in 1..Len(recentSearches) : recentSearches[i].query = query})

\* C17: the history never holds more than 10 entries and is ordered most
\* recent first; addRecentSearch(q) puts q first, keeps the previous entries
\* in their order, drops only the entries beyond the tenth, and adds an
\* entry for q even when q is already present.
C17_HistoryBoundedMostRecentFirst ==
    /\ [](/\ Len(history.recentSearches) <= 10
          /\ \A i \in 1..(Len(history.recentSearches) - 1) :
                 history.recentSearches[i].timestamp
                     >= history.recentSearches[i + 1].timestamp)
    /\ [][(history'.op = "add" /\ history'.n = history.n + 1) =>
            /\ history'.recentSearches[1].query = history'.arg
            /\ Len(history'.recentSearches) = Min(Len(history.recentSearches) + 1, 10)
            /\ \A i \in 2..Len(history'.recentSearches) :
                   history'.recentSearches[i] = history.recentSearches[i - 1]
            /\ Len(history.recentSearches) < 10 =>
                   CountOf(history'.recentSearches, history'.arg)
                       = CountOf(history.recentSearches, history'.arg) + 1]_vars

C17_Witness ==
    /\ history.op = "add"
    /\ history.clock > RecentSearchCap
    /\ Len(history.recentSearches) = RecentSearchCap
    /\ CountOf(history.recentSearches, history.arg) >= 2

\* no cached key starts with the prefix
NoKeyWithPrefix(prefix) == \A k \in DOMAIN cache : ~StartsWith(k, prefix)

\* C18: after a successful update or delete of service s with stored category
\* c the cache holds no entry services:id:<s>, none under
\* services:category:<c>: and none under services:featured:; after a
\* successful create in category c it holds none of the latter two kinds.
C18_ServiceWriteInvalidates ==
    /\ (admin.op \in {"updateService", "deleteService"} /\ admin.status = 200) =>
           /\ (<<"s","e","r","v","i","c","e","s",":","i","d",":">> \o admin.id)
                  \notin DOMAIN cache
           /\ NoKeyWithPrefix(<<"s","e","r","v","i","c","e","s",":","c","a","t","e","g",
                                "o","r","y",":">> \o admin.cat \o <<":">>)
           /\ NoKeyWithPrefix(<<"s","e","r","v","i","c","e","s",":","f","e","a","t","u",
                                "r","e","d",":">>)
    /\ (admin.op = "createService" /\ admin.status = 201) =>
           /\ NoKeyWithPrefix(<<"s","e","r","v","i","c","e","s",":","c","a","t","e","g",
                                "o","r","y",":">> \o admin.cat \o <<":">>)
           /\ NoKeyWithPrefix(<<"s","e","r","v","i","c","e","s",":","f","e","a","t","u",
                                "r","e","d",":">>)

C18_Witness ==
    /\ admin.op = "updateService"
    /\ admin.status = 200
    /\ admin.removed >= 3
    /\ cache # EmptyCache

\* C19: after a successful category create, update or delete the cache holds
\* no entry under categories:; after a successful update or delete of
\* category id it holds none under services:category:<id>: either.
C19_CategoryWriteInvalidates ==
    /\ ((admin.op = "createCategory" /\ admin.status = 201)
           \/ (admin.op \in {"updateCategory", "deleteCategory"} /\ admin.status = 200))
          => NoKeyWithPrefix(<<"c","a","t","e","g","o","r","i","e","s",":">>)
    /\ (admin.op \in {"updateCategory", "deleteCategory"} /\ admin.status = 200)
          => NoKeyWithPrefix(<<"s","e","r","v","i","c","e","s",":","c","a","t","e","g",
                               "o","r","y",":">> \o admin.id \o <<":">>)

C19_Witness ==
    /\ admin.op = "updateCategory"
    /\ admin.status = 200
    /\ admin.removed >= 3
    /\ cache # EmptyCache

\* C22: a search request whose query has fewer than 2 or more than 100
\* characters, whose page is below 1, whose limit is outside 1..50 or whose
\* price is a string other than the four tiers is answered with a validation
\* error (status 400) and leaves the cache, the hit and miss counters, the
\* store and every history as they were; no remote call is made.
C22_InvalidRequestHasNoEffect ==
    [][(/\ nReq' = nReq + 1
        /\ \/ Len(trace'.req.query) < 2
           \/ Len(trace'.req.query) > 100
           \/ trace'.req.page < 1
           \/ trace'.req.limit < 1
           \/ trace'.req.limit > 50
           \/ /\ trace'.req.price.t = "string"
              /\ trace'.req.price.s \notin {<<>>, <<"$">>, <<"$", "$">>,
                                            <<"$", "$", "$">>, <<"$", "$", "$", "$">>})
         => /\ resp'.status = 400
            /\ cache' = cache
            /\ stats' = stats
            /\ store' = store
            /\ users' = users
            /\ ~trace'.did.remoteCalled]_vars

\* a request with a price that is no tier, rejected after an earlier request
\* filled the cache and a history
C22_Witness ==
    /\ trace.req.price = JsStr(<<"$", "$", "$", "$", "$">>)
    /\ resp.status = 400
    /\ cache # EmptyCache
    /\ stats.misses = 1
    /\ \E id \in DOMAIN users : users[id] # <<>>

\* C23: after a search that responds successfully to an authenticated caller,
\* on a cache hit as on a miss, the first entry of the caller's history is the
\* query of that search.
C23_SuccessfulSearchHeadsHistory ==
    (nReq > 0 /\ resp.status = 200 /\ trace.caller.present) =>
        /\ users[trace.caller.id] # <<>>
        /\ users[trace.caller.id][1].query = trace.req.query

\* C24: a search that hits the cache responds with the records, page, limit
\* and total of the cached entry, runs no store query and no remote call, and
\* leaves the cache as it was: same entries, same values, same lifetimes, no
\* set counted.
C24_HitServesEntryUntouched ==
    [][(nReq' = nReq + 1 /\ trace'.path = "hit") =>
          /\ SearchCacheKey(trace'.req) \in DOMAIN cache
          /\ resp'.status = 200
          /\ resp'.data = cache[SearchCacheKey(trace'.req)].value.data
          /\ resp'.page = cache[SearchCacheKey(trace'.req)].value.page
          /\ resp'.limit = cache[SearchCacheKey(trace'.req)].value.limit
          /\ resp'.total = cache[SearchCacheKey(trace'.req)].value.total
          /\ trace'.did.services = <<>> /\ trace'.did.total = 0
          /\ ~trace'.did.remoteCalled
          /\ store' = store
          /\ cache' = cache
          /\ stats'.sets = stats.sets]_vars

\* a hit on an entry whose total exceeds its page
C24_Witness ==
    /\ trace.path = "hit"
    /\ resp.total > Len(resp.data)
    /\ resp.data # <<>>
    /\ cache[SearchCacheKey(trace.req)].ttl = 300

\* C25: after a search that missed the cache and responded successfully, the
\* entry under the key of the request holds the records, page, limit and
\* total of the response, premium contacts replaced as in the response, so
\* that a hit on the entry gives the same response.
C25_CachedEntryEqualsResponse ==
    (trace.path \in {"local", "merged", "sparse"} /\ resp.status = 200) =>
        \A key \in {SearchCacheKey(trace.req)} :
            /\ key \in DOMAIN cache
            /\ cache[key].value =
                   [data |-> resp.data, page |-> resp.page,
                    limit |-> resp.limit, total |-> resp.total]
            /\ \A i \in 1..Len(resp.data) :
                   resp.data[i].premiumOnly =>
                       cache[key].value.data[i].contactInfo = ContactSentinel
            /\ HitResponse(cache[key].value) = resp

\* a merged page holding a redacted premium record, total beyond the page
C25_Witness ==
    /\ trace.path = "merged"
    /\ resp.total > Len(resp.data)
    /\ \E i \in 1..Len(resp.data) :
           /\ resp.data[i].premiumOnly
           /\ cache[SearchCacheKey(trace.req)].value.data[i].contactInfo = ContactSentinel

\* the store as candidate i of the last batch found it
StoreSeenBy(i) ==
    SubSeq(store, 1,
           trace.did.before
               + Cardinality({j \in 1..(i - 1) : trace.did.outcomes[j] = "inserted"}))

\* a stored record has the source of the candidate, or the category of the
\* search and a title holding the first 20 characters of the candidate's title
HasStoredMatch(st, result, category) ==
    \E k \in 1..Len(st) :
        \/ st[k].sourceUrl = result.sourceUrl
        \/ /\ category.t = "string"
           /\ st[k].category = category.s
           /\ Includes(ToLowerCase(st[k].title),
                       ToLowerCase(SubSeq(result.title, 1, Min(20, Len(result.title)))))

\* C28: each candidate of a remote batch either matches a stored record (same
\* sourceUrl, or same category and title prefix) and resolves to it without an
\* insert, or is inserted as exactly one record with premiumOnly = true and
\* verified = false.
C28_CandidateMatchedOrInserted ==
    trace.path = "merged" =>
        /\ Len(trace.did.outcomes) = Len(trace.did.results)
        /\ \A i \in 1..Len(trace.did.outcomes) :
               trace.did.outcomes[i] =
                   IF HasStoredMatch(StoreSeenBy(i), trace.did.results[i],
                                     trace.req.category)
                   THEN "matched" ELSE "inserted"
        /\ Len(store) = trace.did.before + trace.did.inserted
        /\ \A k \in (trace.did.before + 1)..Len(store) :
               store[k].premiumOnly /\ ~store[k].verified

\* C29: when the processing of a candidate fails, the other candidates of the
\* batch are still processed and the search responds successfully with the
\* local records merged with the records the other candidates resolved to.
C29_FailedCandidateOnlyIsLeftOut ==
    (RanLocalQuery /\ trace.did.outcome = "ok" /\ trace.did.nResults > 0) =>
        /\ resp.status = 200
        /\ trace.path = "merged"
        /\ Len(trace.did.outcomes) = trace.did.nResults
        /\ \A i \in 1..Len(trace.did.services) :
               \E k \in 1..Len(trace.did.combined) :
                   trace.did.combined[k].id = trace.did.services[i].id
        /\ \A i \in 1..Len(trace.did.outcomes) :
               trace.did.outcomes[i] # "failed" =>
                   \E k \in 1..Len(trace.did.combined) :
                       \/ trace.did.combined[k].sourceUrl = trace.did.results[i].sourceUrl
                       \/ /\ trace.did.outcomes[i] = "matched"
                          /\ trace.did.combined[k].id <= trace.did.before
        /\ resp.total = Len(trace.did.combined)
        /\ Len(trace.did.combined) <= Len(trace.did.services)
               + trace.did.inserted + trace.did.matched

\* a batch of three: one matched by its source, one failed, one inserted
C29_Witness ==
    /\ trace.path = "merged"
    /\ trace.did.outcomes = <<"matched", "failed", "inserted">>
    /\ resp.status = 200
    /\ Len(store) = trace.did.before + 1

\* C30: a valid search that misses the cache and whose store query fails is
\* answered with status 500, writes no cache entry, makes no remote call and
\* leaves every history and the store as they were.
C30_StoreFailureIsInternalError ==
    [][(/\ nReq' = nReq + 1
        /\ trace'.fault = "store"
        /\ ValidSearch(trace'.req)
        /\ SearchCacheKey(trace'.req) \notin DOMAIN cache)
         => /\ resp'.status = 500
            /\ cache' = cache
            /\ SearchCacheKey(trace'.req) \notin DOMAIN cache'
            /\ ~trace'.did.remoteCalled
            /\ users' = users
            /\ store' = store]_vars

\* the failure follows a request that filled the cache and the caller's history
C30_Witness ==
    /\ trace.fault = "store"
    /\ resp.status = 500
    /\ stats.misses = 2
    /\ cache # EmptyCache
    /\ trace.caller.present
    /\ users[trace.caller.id] # <<>>

\* C21: every get adds one to exactly one of the hit and miss counters, to
\* the hit counter exactly when an entry is stored under the key, so that
\* hits + misses is the number of get calls made; set, delete,
\* invalidatePattern and clear leave both counters as they were; the reported
\* hit rate is 100 * hits / (hits + misses) rounded to the nearest integer,
\* and 0 when no get has been made.
C21_CountersFollowGets ==
    /\ [](stats.hits + stats.misses = cacheOp.gets)
    /\ [](cacheOp.op = "getStats" =>
            IF stats.hits + stats.misses = 0 THEN cacheOp.ret = 0
            ELSE /\ (2 * cacheOp.ret - 1) * (stats.hits + stats.misses) <= 200 * stats.hits
                 /\ 200 * stats.hits < (2 * cacheOp.ret + 1) * (stats.hits + stats.misses))
    /\ [][/\ (cacheOp'.op = "get" /\ cacheOp'.n = cacheOp.n + 1) =>
               /\ cacheOp'.gets = cacheOp.gets + 1
               /\ IF cacheOp'.arg \in DOMAIN cache
                  THEN stats'.hits = stats.hits + 1 /\ stats'.misses = stats.misses
                  ELSE stats'.hits = stats.hits /\ stats'.misses = stats.misses + 1
          /\ (cacheOp'.op \in {"set", "delete", "invalidatePattern", "clear"}
                 /\ cacheOp'.n = cacheOp.n + 1) =>
               /\ cacheOp'.gets = cacheOp.gets
               /\ stats'.hits = stats.hits
               /\ stats'.misses = stats.misses]_vars

\* one hit in eight gets, 12.5 percent, is reported as 13
C21_Witness ==
    /\ cacheOp.op = "getStats"
    /\ stats.hits = 1
    /\ stats.misses = 7
    /\ cacheOp.ret = 13

\* C26: when requests that compute the same key have all missed the cache
\* and no document has been inserted meanwhile, every one of them writes the
\* same value under the key, whoever the callers are.
C26_ConcurrentMissesWriteSameValue ==
    (\A r \in 1..Len(proc) : proc[r].inserted = 0) =>
        \A p, q \in 1..Len(proc) :
            (proc[p].hasWritten /\ proc[q].hasWritten /\ proc[p].key = proc[q].key)
                => proc[p].wrote = proc[q].wrote

\* C27: whatever the interleaving of the searches that ingest the same remote
\* candidate, no two documents of the store have the same sourceUrl.
C27_NoTwoRecordsWithSameSource ==
    \A i, j \in 1..Len(store) :
        i # j => store[i].sourceUrl # store[j].sourceUrl

(***************************************************************************)
(* C31: if loading or saving the caller's history fails during a search,   *)
(* the search returns the same successful response (records, page, limit,  *)
(* total) and writes the same cache entry as when the update succeeds:     *)
(* with and without the failure, the response and the entry are the page   *)
(* and the total the request computed.                                     *)
(***************************************************************************)
C31_HistoryFailureKeepsResponse ==
    (trace.fault \in HistoryFaults \cup {"none"}
        /\ trace.path \in {"local", "merged", "sparse"}) =>
        \A key \in {SearchCacheKey(trace.req)} :
        \A data \in {IF trace.path = "merged"
                      THEN Transform(Paginate(trace.did.combined,
                                              trace.req.page, trace.req.limit))
                      ELSE Transform(trace.did.services)} :
        \A total \in {IF trace.path = "merged" THEN Len(trace.did.combined)
                       ELSE trace.did.total} :
            /\ resp = Paginated(data, trace.req.page, trace.req.limit, total)
            /\ key \in DOMAIN cache
            /\ cache[key].value =
                   ResultEntry(data, trace.req.page, trace.req.limit, total)

\* a search of the verified user found records, its save of the history
\* failed, and the history is the one from before
C31_Witness ==
    /\ trace.fault = "save"
    /\ trace.caller.verified
    /\ trace.path = "local"
    /\ resp.status = 200
    /\ Len(resp.data) > 0
    /\ nReq = 1
    /\ users = InitialUsers

(***************************************************************************)
(* C32: no category, service or payment write removes or changes a cache   *)
(* entry whose key starts with search:, whatever query text the key was    *)
(* built from; a search entry leaves the cache only in a step that is the  *)
(* expiry of its lifetime or clear().                                      *)
(***************************************************************************)
C32_WritesLeaveSearchEntries ==
    [][\A key \in DOMAIN cache :
          (StartsWith(key, PrefSearch) /\ admin'.op \notin {"expired", "clear"}) =>
              /\ key \in DOMAIN cache'
              /\ cache'[key] = cache[key]]_vars

(***************************************************************************)
(* C33: every search request eventually produces exactly one response,     *)
(* whatever the outcome of the store query, of the remote call and of the  *)
(* history update: a request never has more than one response, it has one  *)
(* exactly when its handler has ended, and again and again every request   *)
(* received so far has ended with its response (a request that has ended   *)
(* stays so).                                                              *)
(***************************************************************************)
C33_EveryRequestGetsOneResponse ==
    /\ [](\A p \in 1..Len(proc) :
            /\ proc[p].responses <= 1
            /\ (proc[p].pc = "done") <=> (proc[p].responses = 1))
    /\ []<>(\A p \in 1..Len(proc) : proc[p].pc = "done" /\ proc[p].responses = 1)

\* a request answered after its store query failed, and a request answered
\* with its records after its history update failed
C33_Witness ==
    \E p, q \in 1..Len(proc) :
        /\ proc[p].pc = "done" /\ proc[p].resp.status = 500 /\ ~proc[p].hasWritten
        /\ proc[q].pc = "done" /\ proc[q].resp.status = 200 /\ proc[q].hasWritten
        /\ UpdatesHistory(proc[q].caller)
        /\ users[proc[q].caller.id] = <<>>

(***************************************************************************)
(* C39: when two searches of the same authenticated caller run at the same *)
(* time and both answer successfully on the miss path, both queries are in *)
(* the history of the caller afterwards.                                   *)
(***************************************************************************)
C39_ConcurrentSearchesBothRecorded ==
    \A p, q \in 1..Len(proc) :
        (/\ p # q
         /\ proc[p].caller = proc[q].caller
         /\ UpdatesHistory(proc[p].caller)
         /\ \A r \in {p, q} : /\ proc[r].pc = "done"
                               /\ proc[r].hasWritten
                               /\ proc[r].resp.status = 200)
            => \A r \in {p, q} :
                   \E i \in 1..Len(users[proc[p].caller.id]) :
                       users[proc[p].caller.id][i].query = proc[r].req.query

(***************************************************************************)
(* C34: a search response delivered to an absent or unverified caller      *)
(* whose local results pass the sufficiency gate holds no premiumOnly      *)
(* record, whether it was computed on a miss or served from an entry that  *)
(* an earlier caller wrote for the same query, filters, page and limit.    *)
(***************************************************************************)
C34_UnverifiedCallerGetsNoPremium ==
    (/\ ~(trace.caller.present /\ trace.caller.verified)
     /\ trace.path \in {"local", "hit"}
     /\ resp.status = 200
     /\ SufficiencyGate(LocalQuery(store, trace.req, trace.caller)))
        => \A i \in 1..Len(resp.data) : ~resp.data[i].premiumOnly

(***************************************************************************)
(* C36: getSearchKey is injective on searches: two searches whose          *)
(* normalized query texts differ, or whose filter maps differ after the    *)
(* null and empty entries are dropped, never get the same cache key.       *)
(***************************************************************************)
C36_DifferentSearchesDifferentKeys ==
    (/\ keyOut.done
     /\ \/ NormalizeQuery(keyIn.q1) # NormalizeQuery(keyIn.q2)
        \/ ~SameEntries(keyIn.f1, keyIn.f2))
        => keyOut.a # keyOut.b

(***************************************************************************)
(* C37: on the remote-fallback merge path and for every requested page,    *)
(* the response holds the first `limit` records of the ranked union of the *)
(* local records retrieved for that page and the reconciled remote         *)
(* records, and the reported total is never smaller than the local match   *)
(* count.                                                                  *)
(***************************************************************************)
C37_MergedPageIsHeadOfRankedUnion ==
    (trace.path = "merged" /\ resp.status = 200) =>
        /\ resp.data = Transform(SubSeq(trace.did.combined, 1,
                                        Min(trace.req.limit, Len(trace.did.combined))))
        /\ resp.total >= trace.did.total

(***************************************************************************)
(* C35: getServiceById returns the real contact value of a premiumOnly     *)
(* service only to a caller who has paid for that service; a caller who is *)
(* absent or has not paid receives the sentinel on every call, a call      *)
(* served from the cache included.                                         *)
(***************************************************************************)
C35_ContactOnlyForPayingCaller ==
    \A p \in 1..Len(proc) :
        (/\ proc[p].kind = "get" /\ proc[p].pc = "done" /\ proc[p].status = 200
         /\ proc[p].data.premiumOnly
         /\ ~HasAccess(users, proc[p].caller, proc[p].id))
            => proc[p].data.contactInfo = ContactSentinel

(***************************************************************************)
(* C38: once an updateService of service s has completed, the cache holds  *)
(* under services:id:<s> no value read from the store before that update,  *)
(* whatever getServiceById was in flight during it, and every              *)
(* getServiceById(s) that starts later returns the updated fields.         *)
(***************************************************************************)
C38_NoStaleServiceAfterUpdate ==
    /\ \A i \in 1..Len(store) :
           (store[i].title = NewTitle /\ ServiceKey(i) \in DOMAIN cache)
               => cache[ServiceKey(i)].value.title = NewTitle
    /\ \A p \in 1..Len(proc) :
           (/\ proc[p].kind = "get" /\ proc[p].pc = "done" /\ proc[p].status = 200
            /\ proc[p].after = NewTitle)
               => proc[p].data.title = NewTitle

====
